---- MODULE Spec2Model ----
(***************************************************************************)
(* A model of the zod-rs validation combinator engine: the serde_json      *)
(* value model, the schema types of zod-rs/src/schema, the error / issue / *)
(* held types of zod-rs-util, and a client that builds a schema with the *)
(* fluent builder calls and validates values against it.                   *)
(*                                                                         *)
(* Four specifications share the initial state.  Spec is the client of the *)
(* schemas.  SpecResult is a client of ValidationResult (append, merge,    *)
(* prefix, convert).  SpecLocale picks a locale by its code and renders a  *)
(* size error.  SpecObject configures an object schema and keeps a log of  *)
(* the configuration calls.                                                *)
(*                                                                         *)
(* Conventions.  Option<T> is a sequence of length at most one (None is    *)
(* <<>>, Some(x) is <<x>>).  A Rust String is a sequence of pieces of      *)
(* text; the strings a string schema looks into have one character per     *)
(* piece (<<"o", "k">>), names and messages are written in larger pieces   *)
(* (<<"name">>).  Enum variants without data are TLA+ strings.  An f64 is  *)
(* an integer counting halves (Number(11) is 5.5).                         *)
(***************************************************************************)
EXTENDS Integers, Sequences, FiniteSets, TLC

VARIABLES schema, input, outcome, parsed, held, history, reply

vars == <<schema, input, outcome, parsed, held, history, reply>>

\* schema, input, outcome, parsed: the client of the schemas (the schema
\* built so far, the value handed to it, what validate returned, what
\* parse / safe_parse returned).  held, history, reply: the client of
\* zod_rs_util (the ValidationResult it holds, the calls it has made, and
\* what the last value-returning call returned).
schema_vars == <<schema, input, outcome, parsed>>
util_vars == <<held, history, reply>>

-----------------------------------------------------------------------------
(* Bounds of the model *)

\* longest array value handed to validate, and largest array length bound
MaxArrayLen == 2
\* most calls the client of zod_rs_util makes on one ValidationResult
MaxCalls == 3
\* longest locale code handed to Locale::from_code
MaxCodeLen == 2
\* most configuration calls the logging client makes on one object schema
MaxBuilderCalls == 3
\* most variants added to the root union
MaxVariants == 2
\* most elements added to the root tuple
MaxElements == 2
\* largest length bound handed to a string schema
MaxStrLen == 2
\* most constraints set on the root number schema
MaxConstraints == 2

-----------------------------------------------------------------------------
(* Option *)

None == <<>>
Some(x) == <<x>>
IsSome(o) == Len(o) = 1
Unwrap(o) == o[1]

-----------------------------------------------------------------------------
(* serde_json::Value *)

Null == [t |-> "null"]
Bool(b) == [t |-> "bool", v |-> b]
Number(n) == [t |-> "number", v |-> n]
\* a Number that holds an integer (N::PosInt, N::NegInt) instead of a float
Integer(i) == [t |-> "number", v |-> 2 * i, int |-> TRUE]
String(s) == [t |-> "string", v |-> s]
Array(a) == [t |-> "array", v |-> a]
Object(m) == [t |-> "object", v |-> m]

is_null(value) == value.t = "null"
as_bool(value) == IF value.t = "bool" THEN Some(value.v) ELSE None
as_f64(value) == IF value.t = "number" THEN Some(value.v) ELSE None
as_str(value) == IF value.t = "string" THEN Some(value.v) ELSE None
as_array(value) == IF value.t = "array" THEN Some(value.v) ELSE None
as_object(value) == IF value.t = "object" THEN Some(value.v) ELSE None

\* serde_json::Map with the default BTreeMap backing iterates its keys in
\* sorted order; KeyOrder lists the keys the model uses in that order.
KeyOrder == << <<"a">>, <<"b">>, <<"name">>, <<"y">>, <<"z">> >>

EmptyMap == [key \in {} |-> Null]
MapGet(m, key) == IF key \in DOMAIN m THEN Some(m[key]) ELSE None
MapInsert(m, key, val) ==
    [x \in (DOMAIN m) \cup {key} |-> IF x = key THEN val ELSE m[x]]
MapKeys(m) == SelectSeq(KeyOrder, LAMBDA key : key \in DOMAIN m)

\* Typed outputs of the schemas that are not themselves a Value:
\* () , Option<T> and Vec<T>.  String, f64, bool and Value outputs are
\* written as the Value of the same shape.
Unit == [t |-> "unit"]
OptNone == [t |-> "none"]
OptSome(x) == [t |-> "some", v |-> x]
Vec(xs) == [t |-> "vec", v |-> xs]

\* serde_json::to_value of a validated output
RECURSIVE to_value(_)
to_value(x) ==
    CASE x.t = "unit" -> Null
      [] x.t = "none" -> Null
      [] x.t = "some" -> to_value(x.v)
      [] x.t = "vec" -> Array([i \in 1..Len(x.v) |-> to_value(x.v[i])])
      [] OTHER -> x

-----------------------------------------------------------------------------
(* Formatting *)

Digits == <<"0", "1", "2", "3", "4", "5", "6", "7", "8", "9">>

\* usize::to_string
RECURSIVE usize_to_string(_)
usize_to_string(n) ==
    IF n < 10 THEN <<Digits[n + 1]>>
    ELSE usize_to_string(n \div 10) \o <<Digits[(n % 10) + 1]>>

\* f64::to_string of a number counted in halves
f64_to_string(n) ==
    LET a == IF n < 0 THEN 0 - n ELSE n
        sign == IF n < 0 THEN <<"-">> ELSE <<>>
        frac == IF a % 2 = 1 THEN <<".", "5">> ELSE <<>>
    IN sign \o usize_to_string(a \div 2) \o frac

-----------------------------------------------------------------------------
(* zod_rs_util: ValidationType, ValidationError, ValidationIssue *)

\* ValidationType: a variant without data, or Custom(String)
VT(variant) == <<variant>>
VTCustom(name) == <<"Custom", name>>

\* ValidationType::from(&Value)
TypeOf(value) ==
    CASE value.t = "null" -> VT("Null")
      [] value.t = "bool" -> VT("Bool")
      [] value.t = "number" -> VT("Number")
      [] value.t = "string" -> VT("String")
      [] value.t = "array" -> VT("Array")
      [] value.t = "object" -> VT("Object")

\* StringFormat: a variant without data, or Custom(String)
SF(variant) == <<variant>>
SFCustom(name) == <<"Custom", name>>

Required == [kind |-> "Required"]
InvalidType(expected, actual) ==
    [kind |-> "InvalidType", expected |-> expected, input |-> actual]
InvalidValue(value) == [kind |-> "InvalidValue", value |-> value]
TooBig(origin, maximum, inclusive) ==
    [kind |-> "TooBig", origin |-> origin, maximum |-> maximum,
     inclusive |-> inclusive]
TooSmall(origin, minimum, inclusive) ==
    [kind |-> "TooSmall", origin |-> origin, minimum |-> minimum,
     inclusive |-> inclusive]
InvalidFormat(format, detail) ==
    [kind |-> "InvalidFormat", format |-> format, detail |-> detail]
InvalidNumber(constraint) ==
    [kind |-> "InvalidNumber", constraint |-> constraint]
UnrecognizedKeys(keys) == [kind |-> "UnrecognizedKeys", keys |-> keys]
InvalidUnion(issues) == [kind |-> "InvalidUnion", issues |-> issues]
Custom(message) == [kind |-> "Custom", message |-> message]

Issue(path, error) == [path |-> path, error |-> error]

-----------------------------------------------------------------------------
(* zod_rs_util: ValidationResult *)

New == [issues |-> <<>>]
with_error(error) == [issues |-> <<Issue(<<>>, error)>>]
add_error_at_path(vr, path, error) ==
    [issues |-> Append(vr.issues, Issue(path, error))]
add_error(vr, error) == [issues |-> Append(vr.issues, Issue(<<>>, error))]
add_issue(vr, issue) == [issues |-> Append(vr.issues, issue)]

\* (variant of merge that puts the other result's issues first)
merge_prepend(vr, other) == [issues |-> other.issues \o vr.issues]

merge(vr, other) == [issues |-> vr.issues \o other.issues]
issues_len(vr) == Len(vr.issues)

is_empty_upto_one(vr) == Len(vr.issues) <= 1

is_empty(vr) == Len(vr.issues) = 0

\* (variant of prefix_path that also prefixes the issues nested in an
\* InvalidUnion error)
prefix_path_deep(vr, prefix) ==
    [issues |-> [i \in 1..Len(vr.issues) |->
        Issue(<<prefix>> \o vr.issues[i].path,
              IF vr.issues[i].error.kind = "InvalidUnion"
              THEN InvalidUnion([j \in 1..Len(vr.issues[i].error.issues) |->
                        Issue(<<prefix>> \o vr.issues[i].error.issues[j].path,
                              vr.issues[i].error.issues[j].error)])
              ELSE vr.issues[i].error)]]

\* (variant of prefix_path that prefixes the first issue only)
prefix_path_first_only(vr, prefix) ==
    [issues |-> [i \in 1..Len(vr.issues) |->
        IF i = 1
        THEN Issue(<<prefix>> \o vr.issues[i].path, vr.issues[i].error)
        ELSE vr.issues[i]]]

prefix_path_append(vr, prefix) ==
    [issues |-> [i \in 1..Len(vr.issues) |->
        Issue(Append(vr.issues[i].path, prefix), vr.issues[i].error)]]

prefix_path(vr, prefix) ==
    [issues |-> [i \in 1..Len(vr.issues) |->
        Issue(<<prefix>> \o vr.issues[i].path, vr.issues[i].error)]]

\* ValidationResult::into_result, as error/result.rs has it: Result<(), Self>
into_result(vr) ==
    IF is_empty(vr)
    THEN [panicked |-> FALSE, ok |-> TRUE, val |-> Unit]
    ELSE [panicked |-> FALSE, ok |-> FALSE, err |-> vr]

\* ValidationResult::into_result<T>, as error/mod.rs has it: Result<T, Self>,
\* with a panic where there is no T to return
into_result_T(vr) ==
    IF is_empty(vr)
    THEN [panicked |-> TRUE,
          message |-> <<"Cannot convert empty validation result to error">>]
    ELSE [panicked |-> FALSE, ok |-> FALSE, err |-> vr]

\* ValidateResult<T>: Ok(T) or Err(ValidationResult).  calls is the list of
\* the Schema::validate calls made by the schemas below the one returning,
\* in call order.
Ok(val, calls) == [ok |-> TRUE, val |-> val, calls |-> calls]
Err(vr, calls) == [ok |-> FALSE, err |-> vr, calls |-> calls]
Call(s, value) == [schema |-> s, value |-> value]

-----------------------------------------------------------------------------
(* zod_rs_util: locales *)

\* str::to_lowercase, on the letters the locale codes are written with
char_to_lowercase(c) ==
    CASE c = "A" -> "a"
      [] c = "F" -> "f"
      [] c = "R" -> "r"
      [] c = "E" -> "e"
      [] c = "N" -> "n"
      [] OTHER -> c
to_lowercase(str) == [i \in 1..Len(str) |-> char_to_lowercase(str[i])]

\* (variant of from_code that compares the code as given)
from_code_case_sensitive(code) ==
    IF code = <<"f", "r">> THEN "Fr"
    ELSE IF code = <<"a", "r">> THEN "Ar"
    ELSE "En"

\* Locale::from_code
from_code(code) ==
    LET lower == to_lowercase(code) IN
    IF lower = <<"f", "r">> THEN "Fr"
    ELSE IF lower = <<"a", "r">> THEN "Ar"
    ELSE "En"

\* Display of ValidationOrigin
origin_to_string(origin) ==
    CASE origin = "String" -> <<"string">>
      [] origin = "Array" -> <<"array">>
      [] origin = "Number" -> <<"number">>

Sizable(unit, verb) == [unit |-> unit, verb |-> verb]

\* the unit-and-verb tables of the three localizers (an Arabic letter is
\* written as its code point in brackets)
En_SIZABLES ==
    ("String" :> Sizable(<<"characters">>, <<"to have">>))
    @@ ("Array" :> Sizable(<<"items">>, <<"to have">>))
Fr_sizable ==
    ("String" :> Sizable(<<"caractères">>, <<"avoir">>))
    @@ ("File" :> Sizable(<<"octets">>, <<"avoir">>))
    @@ ("Array" :> Sizable(<<"éléments">>, <<"avoir">>))
    @@ ("Set" :> Sizable(<<"éléments">>, <<"avoir">>))
Ar_SIZABLES ==
    ("String" :> Sizable(<<"[062D][0631][0641]">>, <<"[0623][0646] [064A][062D][0648][064A]">>))
    @@ ("Array" :> Sizable(<<"[0639][0646][0635][0631]">>, <<"[0623][0646] [064A][062D][0648][064A]">>))

\* (variant of get_sizable that finds no pair)
get_sizable_never(table, key) == None

\* HashMap::get on a unit-and-verb table
get_sizable(table, key) ==
    IF key \in DOMAIN table THEN Some(table[key]) ELSE None

\* the comparison sign and the bound of a TooBig / TooSmall error
adj(error) ==
    IF error.kind = "TooBig"
    THEN IF error.inclusive THEN <<"<=">> ELSE <<"<">>
    ELSE IF error.inclusive THEN <<">=">> ELSE <<">">>
bound(error) == IF error.kind = "TooBig" THEN error.maximum ELSE error.minimum

\* Localizer::localize of En, Fr and Ar, on TooBig and TooSmall errors
En_localize(error) ==
    LET sizing == get_sizable(En_SIZABLES, error.origin)
        head == IF error.kind = "TooBig"
                THEN <<"Too big: expected ">> ELSE <<"Too small: expected ">>
    IN  IF IsSome(sizing)
        THEN head \o origin_to_string(error.origin) \o <<" ">>
             \o Unwrap(sizing).verb \o <<" ">> \o adj(error) \o <<" ">>
             \o bound(error) \o <<" ">> \o Unwrap(sizing).unit
        ELSE head \o origin_to_string(error.origin) \o <<" to have ">>
             \o adj(error) \o <<" ">> \o bound(error)
Fr_localize(error) ==
    LET sizing == get_sizable(Fr_sizable, error.origin)
        head == IF error.kind = "TooBig"
                THEN <<"Trop grand: ">> ELSE <<"Trop petit: ">>
    IN  IF IsSome(sizing)
        THEN head \o origin_to_string(error.origin) \o <<" doit ">>
             \o Unwrap(sizing).verb \o <<" ">> \o adj(error)
             \o bound(error) \o <<" ">> \o Unwrap(sizing).unit
        ELSE head \o origin_to_string(error.origin) \o <<" doit être ">>
             \o adj(error) \o bound(error)
Ar_localize(error) ==
    LET sizing == get_sizable(Ar_SIZABLES, error.origin)
        big == error.kind = "TooBig"
    IN  IF IsSome(sizing)
        THEN (IF big THEN <<" [0623][0643][0628][0631] [0645][0646] [0627][0644][0644][0627][0632][0645]: [064A][0641][062A][0631][0636] ">>
                     ELSE <<"[0623][0635][063A][0631] [0645][0646] [0627][0644][0644][0627][0632][0645]: [064A][0641][062A][0631][0636] [0644][0640] ">>)
             \o origin_to_string(error.origin) \o <<" ">>
             \o Unwrap(sizing).verb \o <<" ">> \o adj(error) \o <<" ">>
             \o bound(error) \o <<" ">> \o Unwrap(sizing).unit
        ELSE IF big
        THEN <<"[0623][0643][0628][0631] [0645][0646] [0627][0644][0644][0627][0632][0645]: [064A][0641][062A][0631][0636] [0623][0646] [062A][0643][0648][0646] ">>
             \o origin_to_string(error.origin) \o <<" ">> \o adj(error)
             \o <<" ">> \o bound(error)
        ELSE <<"[0623][0635][063A][0631] [0645][0646] [0627][0644][0644][0627][0632][0645]: [064A][0641][062A][0631][0636] [0644][0640] ">>
             \o origin_to_string(error.origin) \o <<" [0623][0646] [064A][0643][0648][0646] ">>
             \o adj(error) \o <<" ">> \o bound(error)

\* localizer(locale).localize(error)
localize(locale, error) ==
    CASE locale = "En" -> En_localize(error)
      [] locale = "Fr" -> Fr_localize(error)
      [] locale = "Ar" -> Ar_localize(error)

-----------------------------------------------------------------------------
(* Schema configurations (the structs of zod-rs/src/schema) *)

StringSchema ==
    [k |-> "string", min_length |-> None, max_length |-> None,
     starts_with |-> None, ends_with |-> None, includes |-> None,
     pattern |-> None, email |-> FALSE, url |-> FALSE]
NumberSchema ==
    [k |-> "number", min |-> None, max |-> None, integer |-> FALSE,
     positive |-> FALSE, negative |-> FALSE, nonnegative |-> FALSE,
     nonpositive |-> FALSE, finite |-> FALSE]
BooleanSchema == [k |-> "boolean"]
NullSchema == [k |-> "null"]
\* ty is the Rust type of the expected value: "str" (&'static str),
\* "String" or "f64"
LiteralSchema(ty, expected) ==
    [k |-> "literal", ty |-> ty, expected |-> expected]
ArraySchema(element_schema) ==
    [k |-> "array", element_schema |-> element_schema,
     min_length |-> None, max_length |-> None]
OptionalSchema(inner) == [k |-> "optional", inner |-> inner]
TupleSchema == [k |-> "tuple", elements |-> <<>>]
\* T is the output type shared by every variant of the union
UnionSchema(T) == [k |-> "union", T |-> T, schemas |-> <<>>]
\* fields is the HashMap from field name to field validator; order is the
\* order in which this HashMap instance iterates its entries.
ObjectSchema ==
    [k |-> "object", fields |-> EmptyMap, order |-> <<>>, strict |-> FALSE]

RequiredFieldValidator(s) == [optional |-> FALSE, schema |-> s]
OptionalFieldValidator(s) == [optional |-> TRUE, schema |-> s]

\* The output type T of a Schema<T>
RECURSIVE OutType(_)
OutType(s) ==
    CASE s.k = "string" -> <<"String">>
      [] s.k = "number" -> <<"f64">>
      [] s.k = "boolean" -> <<"bool">>
      [] s.k = "null" -> <<"()">>
      [] s.k = "literal" ->
            IF s.ty = "f64" THEN <<"f64">> ELSE <<"String">>
      [] s.k = "array" -> <<"Vec">> \o OutType(s.element_schema)
      [] s.k = "optional" -> <<"Option">> \o OutType(s.inner)
      [] s.k = "tuple" -> <<"Value">>
      [] s.k = "object" -> <<"Value">>
      [] s.k = "union" -> s.T

-----------------------------------------------------------------------------
(* String helpers (str::len, starts_with, ends_with, contains, regexes) *)

\* bytes of the UTF-8 encoding of one character of the model's alphabet
Utf8Len(c) == IF c = "é" THEN 2 ELSE 1

RECURSIVE str_len(_)
str_len(s) == IF s = <<>> THEN 0 ELSE Utf8Len(Head(s)) + str_len(Tail(s))

str_starts_with(s, p) ==
    Len(p) <= Len(s) /\ SubSeq(s, 1, Len(p)) = p
str_ends_with(s, p) ==
    Len(p) <= Len(s) /\ SubSeq(s, Len(s) - Len(p) + 1, Len(s)) = p
str_contains(s, p) ==
    \E i \in 0..(Len(s) - Len(p)) : SubSeq(s, i + 1, i + Len(p)) = p

\* A compiled pattern of the form ^[chars]+$
is_match(pattern, s) ==
    Len(s) > 0 /\ \A i \in 1..Len(s) : s[i] \in pattern.chars

\* EMAIL_REGEX ^[^\s@]+@[^\s@]+\.[^\s@]+$
NotSpaceAt(s, lo, hi) ==
    lo <= hi /\ \A i \in lo..hi : s[i] \notin {" ", "@"}
is_valid_email(s) ==
    \E i \in 1..Len(s) : \E j \in 1..Len(s) :
        /\ i < j
        /\ s[i] = "@"
        /\ s[j] = "."
        /\ NotSpaceAt(s, 1, i - 1)
        /\ NotSpaceAt(s, i + 1, j - 1)
        /\ NotSpaceAt(s, j + 1, Len(s))

is_valid_url(s) ==
    \/ str_starts_with(s, <<"h", "t", "t", "p", ":", "/", "/">>)
    \/ str_starts_with(s, <<"h", "t", "t", "p", "s", ":", "/", "/">>)

-----------------------------------------------------------------------------
(* Primitive schemas *)

\* (variant of StringValidate whose min bound is exclusive)
StringValidate_exclusive_min(s, value) ==
    LET string_val == Unwrap(as_str(value)) IN
    IF as_str(value) = None
    THEN Err(with_error(InvalidType(VT("String"), TypeOf(value))), <<>>)
    ELSE IF IsSome(s.min_length) /\ str_len(string_val) <= Unwrap(s.min_length)
    THEN Err(with_error(TooSmall("String",
                usize_to_string(Unwrap(s.min_length)), TRUE)), <<>>)
    ELSE IF IsSome(s.max_length) /\ str_len(string_val) > Unwrap(s.max_length)
    THEN Err(with_error(TooBig("String",
                usize_to_string(Unwrap(s.max_length)), TRUE)), <<>>)
    ELSE IF IsSome(s.starts_with)
            /\ ~str_starts_with(string_val, Unwrap(s.starts_with))
    THEN Err(with_error(InvalidFormat(SF("StartsWith"), s.starts_with)), <<>>)
    ELSE IF IsSome(s.ends_with)
            /\ ~str_ends_with(string_val, Unwrap(s.ends_with))
    THEN Err(with_error(InvalidFormat(SF("EndsWith"), s.ends_with)), <<>>)
    ELSE IF IsSome(s.includes)
            /\ ~str_contains(string_val, Unwrap(s.includes))
    THEN Err(with_error(InvalidFormat(SF("Includes"), s.includes)), <<>>)
    ELSE IF IsSome(s.pattern) /\ ~is_match(Unwrap(s.pattern), string_val)
    THEN Err(with_error(InvalidFormat(SF("Regex"),
                Some(Unwrap(s.pattern).source))), <<>>)
    ELSE IF s.email /\ ~is_valid_email(string_val)
    THEN Err(with_error(InvalidFormat(SFCustom(<<"email">>), None)), <<>>)
    ELSE IF s.url /\ ~is_valid_url(string_val)
    THEN Err(with_error(InvalidFormat(SFCustom(<<"url">>), None)), <<>>)
    ELSE Ok(String(string_val), <<>>)

StringValidate(s, value) ==
    LET string_val == Unwrap(as_str(value)) IN
    IF as_str(value) = None
    THEN Err(with_error(InvalidType(VT("String"), TypeOf(value))), <<>>)
    ELSE IF IsSome(s.min_length) /\ str_len(string_val) < Unwrap(s.min_length)
    THEN Err(with_error(TooSmall("String",
                usize_to_string(Unwrap(s.min_length)), TRUE)), <<>>)
    ELSE IF IsSome(s.max_length) /\ str_len(string_val) > Unwrap(s.max_length)
    THEN Err(with_error(TooBig("String",
                usize_to_string(Unwrap(s.max_length)), TRUE)), <<>>)
    ELSE IF IsSome(s.starts_with)
            /\ ~str_starts_with(string_val, Unwrap(s.starts_with))
    THEN Err(with_error(InvalidFormat(SF("StartsWith"), s.starts_with)), <<>>)
    ELSE IF IsSome(s.ends_with)
            /\ ~str_ends_with(string_val, Unwrap(s.ends_with))
    THEN Err(with_error(InvalidFormat(SF("EndsWith"), s.ends_with)), <<>>)
    ELSE IF IsSome(s.includes)
            /\ ~str_contains(string_val, Unwrap(s.includes))
    THEN Err(with_error(InvalidFormat(SF("Includes"), s.includes)), <<>>)
    ELSE IF IsSome(s.pattern) /\ ~is_match(Unwrap(s.pattern), string_val)
    THEN Err(with_error(InvalidFormat(SF("Regex"),
                Some(Unwrap(s.pattern).source))), <<>>)
    ELSE IF s.email /\ ~is_valid_email(string_val)
    THEN Err(with_error(InvalidFormat(SFCustom(<<"email">>), None)), <<>>)
    ELSE IF s.url /\ ~is_valid_url(string_val)
    THEN Err(with_error(InvalidFormat(SFCustom(<<"url">>), None)), <<>>)
    ELSE Ok(String(string_val), <<>>)

\* Every f64 that as_f64 returns for a serde_json number is finite.
is_finite(num) == TRUE

\* (variant of NumberValidate that checks the sign before the bounds)
NumberValidate_sign_first(s, value) ==
    LET num == Unwrap(as_f64(value)) IN
    IF as_f64(value) = None
    THEN Err(with_error(InvalidType(VT("Number"), TypeOf(value))), <<>>)
    ELSE IF s.integer /\ num % 2 # 0
    THEN Err(with_error(InvalidType(VTCustom(<<"integer">>),
                                    VTCustom(<<"float">>))), <<>>)
    ELSE IF s.finite /\ ~is_finite(num)
    THEN Err(with_error(InvalidNumber("Finite")), <<>>)
    ELSE IF s.positive /\ num <= 0
    THEN Err(with_error(InvalidNumber("Positive")), <<>>)
    ELSE IF s.negative /\ num >= 0
    THEN Err(with_error(InvalidNumber("Negative")), <<>>)
    ELSE IF s.nonnegative /\ num < 0
    THEN Err(with_error(InvalidNumber("NonNegative")), <<>>)
    ELSE IF s.nonpositive /\ num > 0
    THEN Err(with_error(InvalidNumber("NonPositive")), <<>>)
    ELSE IF IsSome(s.min) /\ num < Unwrap(s.min)
    THEN Err(with_error(TooSmall("Number",
                f64_to_string(Unwrap(s.min)), TRUE)), <<>>)
    ELSE IF IsSome(s.max) /\ num > Unwrap(s.max)
    THEN Err(with_error(TooBig("Number",
                f64_to_string(Unwrap(s.max)), TRUE)), <<>>)
    ELSE Ok(Number(num), <<>>)

\* (variant of NumberValidate in which positive() lets zero through)
NumberValidate_zero_positive(s, value) ==
    LET num == Unwrap(as_f64(value)) IN
    IF as_f64(value) = None
    THEN Err(with_error(InvalidType(VT("Number"), TypeOf(value))), <<>>)
    ELSE IF s.integer /\ num % 2 # 0
    THEN Err(with_error(InvalidType(VTCustom(<<"integer">>),
                                    VTCustom(<<"float">>))), <<>>)
    ELSE IF s.finite /\ ~is_finite(num)
    THEN Err(with_error(InvalidNumber("Finite")), <<>>)
    ELSE IF IsSome(s.min) /\ num < Unwrap(s.min)
    THEN Err(with_error(TooSmall("Number",
                f64_to_string(Unwrap(s.min)), TRUE)), <<>>)
    ELSE IF IsSome(s.max) /\ num > Unwrap(s.max)
    THEN Err(with_error(TooBig("Number",
                f64_to_string(Unwrap(s.max)), TRUE)), <<>>)
    ELSE IF s.positive /\ num < 0
    THEN Err(with_error(InvalidNumber("Positive")), <<>>)
    ELSE IF s.negative /\ num >= 0
    THEN Err(with_error(InvalidNumber("Negative")), <<>>)
    ELSE IF s.nonnegative /\ num < 0
    THEN Err(with_error(InvalidNumber("NonNegative")), <<>>)
    ELSE IF s.nonpositive /\ num > 0
    THEN Err(with_error(InvalidNumber("NonPositive")), <<>>)
    ELSE Ok(Number(num), <<>>)

NumberValidate(s, value) ==
    LET num == Unwrap(as_f64(value)) IN
    IF as_f64(value) = None
    THEN Err(with_error(InvalidType(VT("Number"), TypeOf(value))), <<>>)
    ELSE IF s.integer /\ num % 2 # 0
    THEN Err(with_error(InvalidType(VTCustom(<<"integer">>),
                                    VTCustom(<<"float">>))), <<>>)
    ELSE IF s.finite /\ ~is_finite(num)
    THEN Err(with_error(InvalidNumber("Finite")), <<>>)
    ELSE IF IsSome(s.min) /\ num < Unwrap(s.min)
    THEN Err(with_error(TooSmall("Number",
                f64_to_string(Unwrap(s.min)), TRUE)), <<>>)
    ELSE IF IsSome(s.max) /\ num > Unwrap(s.max)
    THEN Err(with_error(TooBig("Number",
                f64_to_string(Unwrap(s.max)), TRUE)), <<>>)
    ELSE IF s.positive /\ num <= 0
    THEN Err(with_error(InvalidNumber("Positive")), <<>>)
    ELSE IF s.negative /\ num >= 0
    THEN Err(with_error(InvalidNumber("Negative")), <<>>)
    ELSE IF s.nonnegative /\ num < 0
    THEN Err(with_error(InvalidNumber("NonNegative")), <<>>)
    ELSE IF s.nonpositive /\ num > 0
    THEN Err(with_error(InvalidNumber("NonPositive")), <<>>)
    ELSE Ok(Number(num), <<>>)

\* (variant of BooleanValidate that reads the numbers 0 and 1 and the texts
\* "true" and "false" as booleans)
BooleanValidate_truthy(s, value) ==
    IF IsSome(as_bool(value))
    THEN Ok(Bool(Unwrap(as_bool(value))), <<>>)
    ELSE IF IsSome(as_f64(value)) /\ Unwrap(as_f64(value)) \in {0, 2}
    THEN Ok(Bool(Unwrap(as_f64(value)) = 2), <<>>)
    ELSE IF as_str(value) \in {Some(<<"t", "r", "u", "e">>),
                               Some(<<"f", "a", "l", "s", "e">>)}
    THEN Ok(Bool(as_str(value) = Some(<<"t", "r", "u", "e">>)), <<>>)
    ELSE Err(with_error(InvalidType(VT("Bool"), TypeOf(value))), <<>>)

BooleanValidate(s, value) ==
    IF IsSome(as_bool(value))
    THEN Ok(Bool(Unwrap(as_bool(value))), <<>>)
    ELSE Err(with_error(InvalidType(VT("Bool"), TypeOf(value))), <<>>)

NullValidate(s, value) ==
    IF is_null(value)
    THEN Ok(Unit, <<>>)
    ELSE Err(with_error(InvalidType(VT("Null"), TypeOf(value))), <<>>)

\* Two numbers of the model differ by at least one half, far more than
\* f64::EPSILON, so the epsilon comparison accepts equal numbers only.
LiteralValidate(s, value) ==
    IF s.ty = "f64"
    THEN IF as_f64(value) = None
         THEN Err(with_error(InvalidType(VT("Number"), TypeOf(value))), <<>>)
         ELSE IF Unwrap(as_f64(value)) - s.expected = 0
         THEN Ok(Number(Unwrap(as_f64(value))), <<>>)
         ELSE Err(with_error(InvalidValue(f64_to_string(s.expected))), <<>>)
    ELSE IF as_str(value) = None
         THEN Err(with_error(InvalidType(VT("String"), TypeOf(value))), <<>>)
         ELSE IF Unwrap(as_str(value)) = s.expected
         THEN Ok(value, <<>>)
         ELSE Err(with_error(InvalidValue(s.expected)), <<>>)

-----------------------------------------------------------------------------
(* Composite schemas.  Schema::validate dispatches on the schema type. *)

RECURSIVE Validate(_, _)
RECURSIVE ArrayLoop(_, _, _, _)
RECURSIVE TupleLoop(_, _, _, _)
RECURSIVE ObjectLoop(_, _, _, _)
RECURSIVE UnionLoop(_, _, _, _, _)

\* (variant of ArrayLoop that leaves the loop at the first failing element)
ArrayLoop_first_error(s, array, index, st) ==
    IF index >= Len(array) \/ ~is_empty(st.validation_result) THEN st
    ELSE LET r == Validate(s.element_schema, array[index + 1]) IN
         IF r.ok
         THEN ArrayLoop(s, array, index + 1,
                [st EXCEPT !.results = Append(@, r.val),
                           !.calls = @ \o r.calls])
         ELSE ArrayLoop(s, array, index + 1,
                [st EXCEPT !.validation_result =
                               merge(@, prefix_path(r.err,
                                                    usize_to_string(index))),
                           !.calls = @ \o r.calls])

\* the for loop of ArraySchema::validate, from position index on
ArrayLoop(s, array, index, st) ==
    IF index >= Len(array) THEN st
    ELSE LET r == Validate(s.element_schema, array[index + 1]) IN
         IF r.ok
         THEN ArrayLoop(s, array, index + 1,
                [st EXCEPT !.results = Append(@, r.val),
                           !.calls = @ \o r.calls])
         ELSE ArrayLoop(s, array, index + 1,
                [st EXCEPT !.validation_result =
                               merge(@, prefix_path(r.err,
                                                    usize_to_string(index))),
                           !.calls = @ \o r.calls])

\* (variant of ArrayValidate that validates the elements before it checks
\* the length bounds)
ArrayValidate_elements_first(s, value) ==
    LET array == Unwrap(as_array(value))
        st == ArrayLoop(s, array, 0,
                [results |-> <<>>, validation_result |-> New, calls |-> <<>>])
    IN
    IF as_array(value) = None
    THEN Err(with_error(InvalidType(VT("Array"), TypeOf(value))), <<>>)
    ELSE IF ~is_empty(st.validation_result)
    THEN Err(st.validation_result, st.calls)
    ELSE IF IsSome(s.min_length) /\ Len(array) < Unwrap(s.min_length)
    THEN Err(with_error(TooSmall("Array",
                usize_to_string(Unwrap(s.min_length)), TRUE)), st.calls)
    ELSE IF IsSome(s.max_length) /\ Len(array) > Unwrap(s.max_length)
    THEN Err(with_error(TooBig("Array",
                usize_to_string(Unwrap(s.max_length)), TRUE)), st.calls)
    ELSE Ok(Vec(st.results), st.calls)

ArrayValidate(s, value) ==
    LET array == Unwrap(as_array(value))
        st == ArrayLoop(s, array, 0,
                [results |-> <<>>, validation_result |-> New, calls |-> <<>>])
    IN
    IF as_array(value) = None
    THEN Err(with_error(InvalidType(VT("Array"), TypeOf(value))), <<>>)
    ELSE IF IsSome(s.min_length) /\ Len(array) < Unwrap(s.min_length)
    THEN Err(with_error(TooSmall("Array",
                usize_to_string(Unwrap(s.min_length)), TRUE)), <<>>)
    ELSE IF IsSome(s.max_length) /\ Len(array) > Unwrap(s.max_length)
    THEN Err(with_error(TooBig("Array",
                usize_to_string(Unwrap(s.max_length)), TRUE)), <<>>)
    ELSE IF is_empty(st.validation_result)
    THEN Ok(Vec(st.results), st.calls)
    ELSE Err(st.validation_result, st.calls)

\* TupleElementValidatorImpl::validate_element
validate_element(element_schema, value) ==
    LET r == Validate(element_schema, value) IN
    IF r.ok THEN Ok(to_value(r.val), r.calls) ELSE r

\* (variant of TupleLoop that leaves the loop at the first failing position)
TupleLoop_first_error(s, arr, i, st) ==
    IF i >= Len(arr) \/ i >= Len(s.elements)
       \/ ~is_empty(st.validation_result)
    THEN st
    ELSE LET r == validate_element(s.elements[i + 1], arr[i + 1]) IN
         IF r.ok
         THEN TupleLoop(s, arr, i + 1,
                [st EXCEPT !.result = Append(@, r.val),
                           !.calls = @ \o r.calls])
         ELSE TupleLoop(s, arr, i + 1,
                [st EXCEPT !.validation_result =
                               merge(@, prefix_path(r.err,
                                                    usize_to_string(i))),
                           !.calls = @ \o r.calls])

\* the for loop of TupleSchema::validate, from position i on
TupleLoop(s, arr, i, st) ==
    IF i >= Len(arr) \/ i >= Len(s.elements) THEN st
    ELSE LET r == validate_element(s.elements[i + 1], arr[i + 1]) IN
         IF r.ok
         THEN TupleLoop(s, arr, i + 1,
                [st EXCEPT !.result = Append(@, r.val),
                           !.calls = @ \o r.calls])
         ELSE TupleLoop(s, arr, i + 1,
                [st EXCEPT !.validation_result =
                               merge(@, prefix_path(r.err,
                                                    usize_to_string(i))),
                           !.calls = @ \o r.calls])

\* (variant of TupleValidate without the length check: the positions that
\* both the array and the schema have are validated)
TupleValidate_common_prefix(s, value) ==
    LET arr == Unwrap(as_array(value))
        st == TupleLoop(s, arr, 0,
                [result |-> <<>>, validation_result |-> New, calls |-> <<>>])
    IN
    IF as_array(value) = None
    THEN Err(with_error(InvalidType(VT("Array"), TypeOf(value))), <<>>)
    ELSE IF is_empty(st.validation_result)
    THEN Ok(Array(st.result), st.calls)
    ELSE Err(st.validation_result, st.calls)

TupleValidate(s, value) ==
    LET arr == Unwrap(as_array(value))
        st == TupleLoop(s, arr, 0,
                [result |-> <<>>, validation_result |-> New, calls |-> <<>>])
    IN
    IF as_array(value) = None
    THEN Err(with_error(InvalidType(VT("Array"), TypeOf(value))), <<>>)
    ELSE IF Len(arr) # Len(s.elements)
    THEN Err(with_error(Custom(<<"Expected tuple of ">>
                \o usize_to_string(Len(s.elements))
                \o <<" elements, got ">>
                \o usize_to_string(Len(arr)))), <<>>)
    ELSE IF is_empty(st.validation_result)
    THEN Ok(Array(st.result), st.calls)
    ELSE Err(st.validation_result, st.calls)

\* (variant of RequiredValidateField that takes a null value for a missing
\* key)
RequiredValidateField_null_as_missing(validator, value) ==
    IF IsSome(value) /\ ~is_null(Unwrap(value))
    THEN LET r == Validate(validator.schema, Unwrap(value)) IN
         IF r.ok THEN Ok(to_value(r.val), r.calls) ELSE r
    ELSE Err(with_error(Required), <<>>)

\* (variant of RequiredValidateField that hands null to the schema when the
\* key is missing)
RequiredValidateField_missing_as_null(validator, value) ==
    LET r == Validate(validator.schema,
                      IF IsSome(value) THEN Unwrap(value) ELSE Null) IN
    IF r.ok THEN Ok(to_value(r.val), r.calls) ELSE r

\* RequiredFieldValidator::validate_field; value is the Option<&Value>
RequiredValidateField(validator, value) ==
    IF IsSome(value)
    THEN LET r == Validate(validator.schema, Unwrap(value)) IN
         IF r.ok THEN Ok(to_value(r.val), r.calls) ELSE r
    ELSE Err(with_error(Required), <<>>)

\* (variant of OptionalValidateField without the is_null guard)
OptionalValidateField_null_validated(validator, value) ==
    IF IsSome(value)
    THEN LET r == Validate(validator.schema, Unwrap(value)) IN
         IF r.ok THEN Ok(to_value(r.val), r.calls) ELSE r
    ELSE Ok(Null, <<>>)

\* OptionalFieldValidator::validate_field
OptionalValidateField(validator, value) ==
    IF IsSome(value) /\ ~is_null(Unwrap(value))
    THEN LET r == Validate(validator.schema, Unwrap(value)) IN
         IF r.ok THEN Ok(to_value(r.val), r.calls) ELSE r
    ELSE Ok(Null, <<>>)

validate_field(validator, value) ==
    IF validator.optional
    THEN OptionalValidateField(validator, value)
    ELSE RequiredValidateField(validator, value)

is_optional(validator) == validator.optional

\* (variant of ObjectLoop that leaves the loop at the first failing field)
ObjectLoop_first_error(s, obj, i, st) ==
    IF i > Len(s.order) \/ ~is_empty(st.validation_result) THEN st
    ELSE LET field_name == s.order[i]
             validator == s.fields[field_name]
             r == validate_field(validator, MapGet(obj, field_name))
         IN
         IF r.ok
         THEN ObjectLoop(s, obj, i + 1,
                [st EXCEPT !.result =
                               IF ~is_null(r.val) \/ ~is_optional(validator)
                               THEN MapInsert(@, field_name, r.val)
                               ELSE @,
                           !.calls = @ \o r.calls])
         ELSE ObjectLoop(s, obj, i + 1,
                [st EXCEPT !.validation_result =
                               merge(@, prefix_path(r.err, field_name)),
                           !.calls = @ \o r.calls])

\* the loop over self.fields of ObjectSchema::validate, from the i-th entry
\* of the HashMap's iteration order on
ObjectLoop(s, obj, i, st) ==
    IF i > Len(s.order) THEN st
    ELSE LET field_name == s.order[i]
             validator == s.fields[field_name]
             r == validate_field(validator, MapGet(obj, field_name))
         IN
         IF r.ok
         THEN ObjectLoop(s, obj, i + 1,
                [st EXCEPT !.result =
                               IF ~is_null(r.val) \/ ~is_optional(validator)
                               THEN MapInsert(@, field_name, r.val)
                               ELSE @,
                           !.calls = @ \o r.calls])
         ELSE ObjectLoop(s, obj, i + 1,
                [st EXCEPT !.validation_result =
                               merge(@, prefix_path(r.err, field_name)),
                           !.calls = @ \o r.calls])

\* (variant of Passthrough that copies nothing)
Passthrough_configured_only(result, obj, fields) == result

\* the non-strict branch: copy every unconfigured key of the input
Passthrough(result, obj, fields) ==
    LET extra == {key \in DOMAIN obj : key \notin DOMAIN fields} IN
    [key \in (DOMAIN result) \cup extra |->
        IF key \in extra THEN obj[key] ELSE result[key]]

\* (variant of UnrecognizedCheck that drops the field issues when it reports)
UnrecognizedCheck_replacing(validation_result, obj, fields) ==
    LET unrecognized_keys ==
            SelectSeq(MapKeys(obj), LAMBDA key : key \notin DOMAIN fields)
    IN IF unrecognized_keys # <<>>
       THEN with_error(UnrecognizedKeys(unrecognized_keys))
       ELSE validation_result

\* (variant of UnrecognizedCheck that reports each unconfigured key in an
\* issue of its own)
UnrecognizedCheck_per_key(validation_result, obj, fields) ==
    LET unrecognized_keys ==
            SelectSeq(MapKeys(obj), LAMBDA key : key \notin DOMAIN fields)
    IN [issues |-> validation_result.issues \o
            [i \in 1..Len(unrecognized_keys) |->
                Issue(<<>>, UnrecognizedKeys(<<unrecognized_keys[i]>>))]]

\* the strict branch: one issue at the root path listing the unconfigured
\* keys of the input, if there are any
UnrecognizedCheck(validation_result, obj, fields) ==
    LET unrecognized_keys ==
            SelectSeq(MapKeys(obj), LAMBDA key : key \notin DOMAIN fields)
    IN IF unrecognized_keys # <<>>
       THEN add_error_at_path(validation_result, <<>>,
                              UnrecognizedKeys(unrecognized_keys))
       ELSE validation_result

ObjectValidate(s, value) ==
    LET obj == Unwrap(as_object(value))
        st == ObjectLoop(s, obj, 1,
                [result |-> EmptyMap, validation_result |-> New,
                 calls |-> <<>>])
        validation_result ==
            IF s.strict
            THEN UnrecognizedCheck(st.validation_result, obj, s.fields)
            ELSE st.validation_result
        result ==
            IF s.strict THEN st.result
            ELSE Passthrough(st.result, obj, s.fields)
    IN
    IF as_object(value) = None
    THEN Err(with_error(InvalidType(VT("Object"), TypeOf(value))), <<>>)
    ELSE IF is_empty(validation_result)
    THEN Ok(Object(result), st.calls)
    ELSE Err(validation_result, st.calls)

\* (variant of OptionalValidate that hands null to the inner schema as well)
OptionalValidate_null_delegated(s, value) ==
    LET r == Validate(s.inner, value) IN
    IF r.ok
    THEN Ok(IF is_null(value) THEN OptNone ELSE OptSome(r.val), r.calls)
    ELSE r

OptionalValidate(s, value) ==
    IF is_null(value)
    THEN Ok(OptNone, <<>>)
    ELSE LET r == Validate(s.inner, value) IN
         IF r.ok THEN Ok(OptSome(r.val), r.calls) ELSE r

\* (variant of UnionLoop in which the last accepting variant wins)
UnionLoop_last_match(s, value, i, issues, calls) ==
    IF i > Len(s.schemas)
    THEN Err(with_error(InvalidUnion(issues)), calls)
    ELSE LET r == Validate(s.schemas[i], value)
             rest == UnionLoop(s, value, i + 1,
                               IF r.ok THEN issues
                               ELSE issues \o r.err.issues,
                               calls \o r.calls)
         IN IF r.ok /\ ~rest.ok THEN Ok(r.val, calls \o r.calls) ELSE rest

\* (variant of UnionLoop that keeps one copy of equal issues)
UnionLoop_dedup(s, value, i, issues, calls) ==
    IF i > Len(s.schemas)
    THEN Err(with_error(InvalidUnion(issues)), calls)
    ELSE LET r == Validate(s.schemas[i], value) IN
         IF r.ok
         THEN Ok(r.val, calls \o r.calls)
         ELSE UnionLoop(s, value, i + 1,
                        issues \o SelectSeq(r.err.issues,
                            LAMBDA x : \A j \in 1..Len(issues) : issues[j] # x),
                        calls \o r.calls)

\* (variant of UnionLoop that gives up at the first rejecting variant)
UnionLoop_first_only(s, value, i, issues, calls) ==
    IF i > Len(s.schemas)
    THEN Err(with_error(InvalidUnion(issues)), calls)
    ELSE LET r == Validate(s.schemas[i], value) IN
         IF r.ok
         THEN Ok(r.val, calls \o r.calls)
         ELSE Err(with_error(InvalidUnion(issues \o r.err.issues)),
                  calls \o r.calls)

\* the for loop of UnionSchema::validate, from the i-th variant on
UnionLoop(s, value, i, issues, calls) ==
    IF i > Len(s.schemas)
    THEN Err(with_error(InvalidUnion(issues)), calls)
    ELSE LET r == Validate(s.schemas[i], value) IN
         IF r.ok
         THEN Ok(r.val, calls \o r.calls)
         ELSE UnionLoop(s, value, i + 1, issues \o r.err.issues,
                        calls \o r.calls)

UnionValidate(s, value) == UnionLoop(s, value, 1, <<>>, <<>>)

\* Schema::validate; the call itself is recorded first
Validate(s, value) ==
    LET r == CASE s.k = "string" -> StringValidate(s, value)
               [] s.k = "number" -> NumberValidate(s, value)
               [] s.k = "boolean" -> BooleanValidate(s, value)
               [] s.k = "null" -> NullValidate(s, value)
               [] s.k = "literal" -> LiteralValidate(s, value)
               [] s.k = "array" -> ArrayValidate(s, value)
               [] s.k = "tuple" -> TupleValidate(s, value)
               [] s.k = "object" -> ObjectValidate(s, value)
               [] s.k = "optional" -> OptionalValidate(s, value)
               [] s.k = "union" -> UnionValidate(s, value)
    IN [r EXCEPT !.calls = <<Call(s, value)>> \o @]

\* Schema::safe_parse
SafeParse(s, value) == Validate(s, value)

\* (variant of Parse that returns the null value instead of panicking)
Parse_no_panic(s, value) ==
    LET r == Validate(s, value) IN
    [panicked |-> FALSE, val |-> IF r.ok THEN r.val ELSE Null]

\* Schema::parse: the Ok value, or a panic whose message is
\* "Validation failed: " followed by the errors
Parse(s, value) ==
    LET r == Validate(s, value) IN
    IF r.ok
    THEN [panicked |-> FALSE, val |-> r.val]
    ELSE [panicked |-> TRUE, message |-> <<"Validation failed: ">>,
          errors |-> r.err]

-----------------------------------------------------------------------------
(* The schemas and values the client uses *)

\* string().min(2)
Str2 == [StringSchema EXCEPT !.min_length = Some(2)]
\* object().field("name", string().min(2)), and the same with .strict()
NameObject ==
    [ObjectSchema EXCEPT !.fields = (<<"name">> :> RequiredFieldValidator(Str2)),
                         !.order = << <<"name">> >>]
StrictNameObject == [NameObject EXCEPT !.strict = TRUE]
\* object().optional_field("a", string())
OptAObject ==
    [ObjectSchema EXCEPT !.fields =
                            (<<"a">> :> OptionalFieldValidator(StringSchema)),
                         !.order = << <<"a">> >>]
\* tuple().element(string().min(2)).element(object().field("name", ..))
PairTuple == [TupleSchema EXCEPT !.elements = <<Str2, NameObject>>]
\* union().variant(string().min(2)).variant(literal("x"))
StrUnion ==
    [UnionSchema(<<"String">>) EXCEPT
        !.schemas = <<Str2, LiteralSchema("str", <<"x">>)>>]
\* union().variant(object().field("name", ..)).variant(.. .strict())
ObjUnion ==
    [UnionSchema(<<"Value">>) EXCEPT !.schemas = <<NameObject, StrictNameObject>>]

\* schemas handed to element, array and optional
ChildSchemas ==
    {Str2, NumberSchema, NullSchema, ArraySchema(Str2),
     ArraySchema(NameObject), StrictNameObject, PairTuple, StrUnion, ObjUnion}

\* schemas handed to field and optional_field
FieldSchemas ==
    {Str2, NullSchema, ArraySchema(NameObject), StrictNameObject, PairTuple,
     StrUnion}

\* schemas handed to variant
VariantSchemas ==
    {StringSchema, Str2, LiteralSchema("str", <<"x">>),
     ObjectSchema, OptAObject, StrictNameObject}

UnionTypes == {OutType(s) : s \in VariantSchemas}

\* expected values handed to literal
Literals == {<<"str", <<"x">>>>, <<"String", <<"o", "k">>>>, <<"f64", 2>>}

\* field names handed to field and optional_field
FieldNames == {<<"a">>, <<"b">>}

X == String(<<"x">>)
OK == String(<<"o", "k">>)
NameX == Object(<<"name">> :> X)
NameOK == Object(<<"name">> :> OK)

\* -1.5, -1.0, 0.0, 0.5, 1.0, 1.5 and the integers -1, 0, 1
NumberValues ==
    {Number(0 - 3), Number(0 - 2), Number(0), Number(1), Number(2), Number(3),
     Integer(0 - 1), Integer(0), Integer(1)}
\* "", "x", "ok", "é", "true", "false", "a@b.c", "http://"
StringValues ==
    {String(<<>>), X, OK, String(<<"é">>), String(<<"t", "r", "u", "e">>),
     String(<<"f", "a", "l", "s", "e">>), String(<<"a", "@", "b", ".", "c">>),
     String(<<"h", "t", "t", "p", ":", "/", "/">>)}

LeafValues == {Null, Bool(TRUE), Bool(FALSE)} \cup NumberValues \cup StringValues

\* bounds handed to NumberSchema::min and NumberSchema::max: -1.0, 0.0, 1.5
NumberBounds == {0 - 2, 0, 3}

\* the values found inside the arrays and objects handed to validate
ItemValues == {X, OK, Number(2), NameX, NameOK}
MemberValues ==
    {Null, X, OK, Array(<<OK, X>>), Array(<<NameOK, NameX>>), NameX,
     Object((<<"name">> :> OK) @@ (<<"z">> :> Null))}

ArrayValues ==
    {Array(a) : a \in UNION {[1..n -> ItemValues] : n \in 0..MaxArrayLen}}

\* objects over the keys a and b, with no, one or two further keys
ExtraMaps ==
    {EmptyMap, (<<"z">> :> X), (<<"y">> :> Number(2)) @@ (<<"z">> :> X)}
ObjectValues ==
    {Object(m @@ e) :
        m \in UNION {[ks -> MemberValues] : ks \in SUBSET FieldNames},
        e \in ExtraMaps}

Values == LeafValues \cup ArrayValues \cup ObjectValues

\* the values handed to parse and safe_parse
ParseValues ==
    {Null, Bool(TRUE), Integer(1), Number(3), X, OK, Array(<<>>),
     Array(<<OK, X>>), NameX, NameOK,
     Object((<<"a">> :> OK) @@ (<<"b">> :> X))}

\* the iteration orders a HashMap with the given keys can have
Orders(keys) ==
    {o \in [1..Cardinality(keys) -> keys] : \A k \in keys : \E i \in DOMAIN o : o[i] = k}

-----------------------------------------------------------------------------
(* The client: build a schema with the builder calls, then validate *)

NoSchema == [k |-> "none"]

Init ==
    /\ schema = NoSchema
    /\ input = None
    /\ outcome = None
    /\ parsed = None
    /\ held = New
    /\ history = <<>>
    /\ reply = None

\* a builder call consumes the schema and yields a new one; the client
\* finishes the chain of builder calls before it validates
Built(s) ==
    /\ outcome = None
    /\ parsed = None
    /\ schema' = s
    /\ input' = None
    /\ outcome' = None
    /\ parsed' = None
    /\ UNCHANGED util_vars

string == schema.k = "none" /\ Built(StringSchema)
number == schema.k = "none" /\ Built(NumberSchema)
boolean == schema.k = "none" /\ Built(BooleanSchema)
null == schema.k = "none" /\ Built(NullSchema)
literal ==
    /\ schema.k = "none"
    /\ \E l \in Literals : Built(LiteralSchema(l[1], l[2]))
array ==
    /\ schema.k = "none"
    /\ \E s \in ChildSchemas : Built(ArraySchema(s))
optional ==
    /\ schema.k = "none"
    /\ \E s \in ChildSchemas : Built(OptionalSchema(s))
tuple == schema.k = "none" /\ Built(TupleSchema)
union ==
    /\ schema.k = "none"
    /\ \E T \in UnionTypes : Built(UnionSchema(T))
object == schema.k = "none" /\ Built(ObjectSchema)

\* the number of constraints set on a string schema
StringConstraints(s) ==
    Len(s.min_length) + Len(s.max_length) + Len(s.starts_with)
    + Len(s.ends_with) + Len(s.includes) + Len(s.pattern)
    + Cardinality({f \in {"email", "url"} : s[f]})

\* a builder call on the string schema
StringBuilt(s) ==
    /\ schema.k = "string"
    /\ StringConstraints(schema) < MaxConstraints
    /\ Built(s)

\* StringSchema::min, StringSchema::max, StringSchema::length
string_min ==
    \E min \in 0..MaxStrLen :
        StringBuilt([schema EXCEPT !.min_length = Some(min)])
string_max ==
    \E max \in 0..MaxStrLen :
        StringBuilt([schema EXCEPT !.max_length = Some(max)])
string_length ==
    \E len \in 0..MaxStrLen :
        StringBuilt([schema EXCEPT !.min_length = Some(len),
                                   !.max_length = Some(len)])

\* Regex::new("^[a-z]+$")
LowerCase ==
    [source |-> <<"^[a-z]+$">>,
     chars |-> {"a", "b", "c", "d", "e", "f", "g", "h", "i", "j", "k", "l", "m",
                "n", "o", "p", "q", "r", "s", "t", "u", "v", "w", "x", "y", "z"}]

\* StringSchema::starts_with, ends_with, includes, regex, email, url
starts_with == StringBuilt([schema EXCEPT !.starts_with = Some(<<"o">>)])
ends_with == StringBuilt([schema EXCEPT !.ends_with = Some(<<"k">>)])
includes == StringBuilt([schema EXCEPT !.includes = Some(<<"x">>)])
regex == StringBuilt([schema EXCEPT !.pattern = Some(LowerCase)])
email == StringBuilt([schema EXCEPT !.email = TRUE])
url == StringBuilt([schema EXCEPT !.url = TRUE])

\* the number of constraints set on a number schema
Constraints(s) ==
    Len(s.min) + Len(s.max)
    + Cardinality({f \in {"integer", "positive", "negative", "nonnegative",
                          "nonpositive", "finite"} : s[f]})

\* NumberSchema::min, max, int, positive, negative, nonnegative,
\* nonpositive, finite
NumberBuilt(s) ==
    /\ schema.k = "number"
    /\ Constraints(schema) < MaxConstraints
    /\ Built(s)
number_min ==
    \E min \in NumberBounds : NumberBuilt([schema EXCEPT !.min = Some(min)])
number_max ==
    \E max \in NumberBounds : NumberBuilt([schema EXCEPT !.max = Some(max)])
int == NumberBuilt([schema EXCEPT !.integer = TRUE])
positive == NumberBuilt([schema EXCEPT !.positive = TRUE])
negative == NumberBuilt([schema EXCEPT !.negative = TRUE])
nonnegative == NumberBuilt([schema EXCEPT !.nonnegative = TRUE])
nonpositive == NumberBuilt([schema EXCEPT !.nonpositive = TRUE])
finite == NumberBuilt([schema EXCEPT !.finite = TRUE])

\* ArraySchema::min, ArraySchema::max, ArraySchema::length
array_length ==
    /\ schema.k = "array"
    /\ \E len \in 0..MaxArrayLen :
        Built([schema EXCEPT !.min_length = Some(len),
                             !.max_length = Some(len)])
array_min ==
    /\ schema.k = "array"
    /\ \E min \in 0..MaxArrayLen :
        Built([schema EXCEPT !.min_length = Some(min)])
array_max ==
    /\ schema.k = "array"
    /\ \E max \in 0..MaxArrayLen :
        Built([schema EXCEPT !.max_length = Some(max)])

\* TupleSchema::element
element ==
    /\ schema.k = "tuple"
    /\ Len(schema.elements) < MaxElements
    /\ \E s \in ChildSchemas :
        Built([schema EXCEPT !.elements = Append(@, s)])

\* UnionSchema::variant
variant ==
    /\ schema.k = "union"
    /\ Len(schema.schemas) < MaxVariants
    /\ \E s \in VariantSchemas :
        /\ OutType(s) = schema.T
        /\ Built([schema EXCEPT !.schemas = Append(@, s)])

\* (variant of Inserted that keeps the entry a configured name has)
Inserted_keep_first(s, name, validator) ==
    IF name \in DOMAIN s.fields THEN {s}
    ELSE LET fields == MapInsert(s.fields, name, validator) IN
         {[s EXCEPT !.fields = fields, !.order = order] :
            order \in Orders(DOMAIN fields)}

\* HashMap::insert: the entry is added or replaced, and the map iterates in
\* some order of its keys
Inserted(s, name, validator) ==
    LET fields == MapInsert(s.fields, name, validator) IN
    {[s EXCEPT !.fields = fields, !.order = order] :
        order \in Orders(DOMAIN fields)}
Insert(s, name, validator) ==
    \E built \in Inserted(s, name, validator) : Built(built)

\* ObjectSchema::field, ObjectSchema::optional_field, ObjectSchema::strict
field ==
    /\ schema.k = "object"
    /\ \E name \in FieldNames : \E s \in FieldSchemas :
        Insert(schema, name, RequiredFieldValidator(s))
optional_field ==
    /\ schema.k = "object"
    /\ \E name \in FieldNames : \E s \in FieldSchemas :
        Insert(schema, name, OptionalFieldValidator(s))
strict ==
    /\ schema.k = "object"
    /\ Built([schema EXCEPT !.strict = TRUE])

\* Schema::validate on the schema built so far
validate ==
    /\ schema.k # "none"
    /\ outcome = None
    /\ parsed = None
    /\ \E value \in Values :
        /\ input' = Some(value)
        /\ outcome' = Some(Validate(schema, value))
    /\ UNCHANGED <<schema, parsed>>
    /\ UNCHANGED util_vars

\* Schema::safe_parse and Schema::parse on the schema built so far
safe_parse ==
    /\ schema.k # "none"
    /\ outcome = None
    /\ parsed = None
    /\ \E value \in ParseValues :
        /\ input' = Some(value)
        /\ parsed' = Some([op |-> "safe_parse",
                           returned |-> SafeParse(schema, value)])
    /\ UNCHANGED <<schema, outcome>>
    /\ UNCHANGED util_vars
parse ==
    /\ schema.k # "none"
    /\ outcome = None
    /\ parsed = None
    /\ \E value \in ParseValues :
        /\ input' = Some(value)
        /\ parsed' = Some([op |-> "parse", returned |-> Parse(schema, value)])
    /\ UNCHANGED <<schema, outcome>>
    /\ UNCHANGED util_vars

Next ==
    \/ string \/ number \/ boolean \/ null \/ literal
    \/ array \/ optional \/ tuple \/ union \/ object
    \/ string_min \/ string_max \/ string_length
    \/ starts_with \/ ends_with \/ includes \/ regex \/ email \/ url
    \/ number_min \/ number_max \/ int \/ positive \/ negative
    \/ nonnegative \/ nonpositive \/ finite
    \/ array_min \/ array_max \/ array_length
    \/ element
    \/ variant
    \/ field \/ optional_field \/ strict
    \/ validate \/ safe_parse \/ parse

Spec == Init /\ [][Next]_vars

-----------------------------------------------------------------------------
(* The client of zod_rs_util: build a ValidationResult, then convert it *)

UtilErrors ==
    {Required, Custom(<<"m">>), TooSmall("Number", f64_to_string(30), TRUE)}
UtilPaths == {<<>>, << <<"user">> >>, << <<"user">>, <<"age">> >>}
UtilIssues ==
    {Issue(path, error) : path \in UtilPaths, error \in {Required, Custom(<<"m">>)}}
UtilResults ==
    {New, with_error(Required),
     add_error_at_path(with_error(Custom(<<"m">>)), << <<"age">> >>, Required)}
UtilPrefixes == {<<"a">>, <<"b">>}

\* a call on the ValidationResult the client holds, which into_result
\* consumes
Called(call, vr) ==
    /\ Len(history) < MaxCalls
    /\ reply = None
    /\ held' = vr
    /\ history' = Append(history, call)
    /\ UNCHANGED schema_vars

AddError ==
    \E error \in UtilErrors :
        /\ Called([op |-> "add_error", error |-> error], add_error(held, error))
        /\ UNCHANGED reply
AddIssue ==
    \E issue \in UtilIssues :
        /\ Called([op |-> "add_issue", issue |-> issue], add_issue(held, issue))
        /\ UNCHANGED reply
AddErrorAtPath ==
    \E path \in UtilPaths : \E error \in UtilErrors :
        /\ Called([op |-> "add_error_at_path", path |-> path, error |-> error],
                  add_error_at_path(held, path, error))
        /\ UNCHANGED reply
Merge ==
    \E other \in UtilResults :
        /\ Called([op |-> "merge", other |-> other], merge(held, other))
        /\ UNCHANGED reply
PrefixPath ==
    \E prefix \in UtilPrefixes :
        /\ Called([op |-> "prefix_path", prefix |-> prefix],
                  prefix_path(held, prefix))
        /\ UNCHANGED reply
\* the two definitions of ValidationResult::into_result in the source tree
IntoResult ==
    /\ Called([op |-> "into_result"], held)
    /\ reply' = Some(into_result(held))
IntoResultT ==
    /\ Called([op |-> "into_result"], held)
    /\ reply' = Some(into_result_T(held))

NextResult ==
    \/ AddError \/ AddIssue \/ AddErrorAtPath \/ Merge \/ PrefixPath
    \/ IntoResult \/ IntoResultT

SpecResult == Init /\ [][NextResult]_vars

-----------------------------------------------------------------------------
(* The client of the locales: pick a locale by its code, then render *)

CodeChars == {"a", "A", "f", "F", "r", "R", "e", "n"}
Codes == UNION {[1..n -> CodeChars] : n \in 0..MaxCodeLen}
SizeOrigins == {"String", "Array", "Number"}
SizeErrors ==
    {TooBig(origin, usize_to_string(3), inclusive) :
        origin \in SizeOrigins, inclusive \in BOOLEAN}
    \cup {TooSmall(origin, usize_to_string(15), inclusive) :
        origin \in SizeOrigins, inclusive \in BOOLEAN}

FromCode ==
    /\ history = <<>>
    /\ \E code \in Codes :
        /\ history' = <<[op |-> "from_code", code |-> code]>>
        /\ reply' = Some(from_code(code))
    /\ UNCHANGED <<held, schema_vars>>
\* ValidationError::local(lang) on the locale from_code returned
Local ==
    /\ Len(history) = 1
    /\ history[1].op = "from_code"
    /\ \E error \in SizeErrors :
        /\ history' = Append(history,
                             [op |-> "local", lang |-> reply[1], error |-> error])
        /\ reply' = Some(localize(reply[1], error))
    /\ UNCHANGED <<held, schema_vars>>

NextLocale == FromCode \/ Local

SpecLocale == Init /\ [][NextLocale]_vars

-----------------------------------------------------------------------------
(* A client that keeps a log of the calls that configure its object schema *)

LoggedSchemas == {Str2, NullSchema}
\* objects over the keys a and b
LoggedValues ==
    {Object(m) :
        m \in UNION {[ks -> {Null, X, OK}] : ks \in SUBSET FieldNames}}

\* a builder call on the object schema, entered in the log
Logged(s, call) ==
    /\ outcome = None
    /\ parsed = None
    /\ Len(history) < MaxBuilderCalls
    /\ schema' = s
    /\ history' = Append(history, call)
    /\ UNCHANGED <<input, outcome, parsed, held, reply>>

LoggedField ==
    /\ schema.k = "object"
    /\ \E name \in FieldNames : \E s \in LoggedSchemas :
        \E built \in Inserted(schema, name, RequiredFieldValidator(s)) :
            Logged(built, [op |-> "field", name |-> name, schema |-> s])
LoggedOptionalField ==
    /\ schema.k = "object"
    /\ \E name \in FieldNames : \E s \in LoggedSchemas :
        \E built \in Inserted(schema, name, OptionalFieldValidator(s)) :
            Logged(built, [op |-> "optional_field", name |-> name, schema |-> s])
LoggedStrict ==
    /\ schema.k = "object"
    /\ Logged([schema EXCEPT !.strict = TRUE], [op |-> "strict"])
LoggedValidate ==
    /\ schema.k = "object"
    /\ outcome = None
    /\ \E value \in LoggedValues :
        /\ input' = Some(value)
        /\ outcome' = Some(Validate(schema, value))
    /\ UNCHANGED <<schema, parsed, util_vars>>

NextObject ==
    \/ object
    \/ LoggedField \/ LoggedOptionalField \/ LoggedStrict
    \/ LoggedValidate

SpecObject == Init /\ [][NextObject]_vars

-----------------------------------------------------------------------------
(* Vocabulary of the properties *)

Validated == outcome # None
out == Unwrap(outcome)
val == Unwrap(input)
OutIssues == IF out.ok THEN <<>> ELSE out.err.issues

\* the issues with one more path segment in front
Prefixed(segment, issues) ==
    [i \in 1..Len(issues) |->
        [path |-> <<segment>> \o issues[i].path, error |-> issues[i].error]]

RECURSIVE Flatten(_)
Flatten(seqs) == IF seqs = <<>> THEN <<>> ELSE Head(seqs) \o Flatten(Tail(seqs))

IssuesOf(r) == IF r.ok THEN <<>> ELSE r.err.issues

\* the issues of a result that lie under a first path segment
Under(segment, issues) ==
    SelectSeq(issues, LAMBDA i : i.path # <<>> /\ Head(i.path) = segment)

\* some constituent of the composite produced an issue for the value
ConstituentFails(s, value) ==
    CASE s.k = "array" /\ value.t = "array" ->
            \E i \in 1..Len(value.v) :
                ~Validate(s.element_schema, value.v[i]).ok
      [] s.k = "tuple" /\ value.t = "array" ->
            \E i \in 1..Len(value.v) :
                i <= Len(s.elements) /\ ~Validate(s.elements[i], value.v[i]).ok
      [] s.k = "object" /\ value.t = "object" ->
            \E name \in DOMAIN s.fields :
                ~validate_field(s.fields[name], MapGet(value.v, name)).ok
      [] s.k = "optional" /\ value.t # "null" ->
            ~Validate(s.inner, value).ok
      [] s.k = "union" ->
            \E i \in 1..Len(s.schemas) : ~Validate(s.schemas[i], value).ok
      [] OTHER -> FALSE

-----------------------------------------------------------------------------
(* C1 *)

\* C1 as stated: validate returns Ok, or Err with at least one issue, and
\* every composite (array, tuple, object, optional, union) returns Ok only
\* when none of its constituents produced an issue.
SuccessInvariantAllComposites ==
    Validated =>
        /\ ~out.ok => Len(out.err.issues) >= 1
        /\ out.ok => ~ConstituentFails(schema, val)

\* C1 (amended): validate returns Ok, or Err with at least one issue; an
\* array, tuple, object or optional returns Ok only when none of its
\* constituents produced an issue, and a union returns Ok only when at least
\* one of its variants produced no issue.
SuccessInvariant ==
    Validated =>
        /\ ~out.ok => Len(out.err.issues) >= 1
        /\ out.ok /\ schema.k # "union" => ~ConstituentFails(schema, val)
        /\ out.ok /\ schema.k = "union" =>
            \E i \in 1..Len(schema.schemas) :
                Validate(schema.schemas[i], val).ok

\* a union accepted a value that its first variant rejected
SuccessInvariantWitness ==
    /\ Validated
    /\ schema.k = "union"
    /\ out.ok
    /\ Len(schema.schemas) = 2
    /\ ~Validate(schema.schemas[1], val).ok

-----------------------------------------------------------------------------
(* C2 *)

\* Following the path from the schema and the value, through fields of
\* objects and positions of arrays and tuples, outermost segment first,
\* ends at a constituent that reports the error at its own root.
RECURSIVE Locates(_, _, _, _)
Locates(s, value, path, error) ==
    IF path = <<>>
    THEN \E i \in 1..Len(IssuesOf(Validate(s, value))) :
            IssuesOf(Validate(s, value))[i] = [path |-> <<>>, error |-> error]
    ELSE CASE s.k = "object" /\ value.t = "object" ->
                /\ Head(path) \in DOMAIN s.fields
                /\ IF Head(path) \in DOMAIN value.v
                   THEN Locates(s.fields[Head(path)].schema,
                                value.v[Head(path)], Tail(path), error)
                   ELSE /\ Tail(path) = <<>>
                        /\ error.kind = "Required"
                        /\ ~s.fields[Head(path)].optional
           [] s.k = "array" /\ value.t = "array" ->
                \E i \in 1..Len(value.v) :
                    /\ usize_to_string(i - 1) = Head(path)
                    /\ Locates(s.element_schema, value.v[i], Tail(path), error)
           [] s.k = "tuple" /\ value.t = "array" ->
                \E i \in 1..Len(value.v) :
                    /\ i <= Len(s.elements)
                    /\ usize_to_string(i - 1) = Head(path)
                    /\ Locates(s.elements[i], value.v[i], Tail(path), error)
           [] s.k = "optional" -> Locates(s.inner, value, path, error)
           [] OTHER -> FALSE

\* C2: the path of every issue the root validate call returns is the
\* sequence of field names and stringified indices from the root down to the
\* failing constituent, outermost segment first.
PathCorrectness ==
    Validated =>
        \A i \in 1..Len(OutIssues) :
            Locates(schema, val, OutIssues[i].path, OutIssues[i].error)

\* field "a" -> index 1 -> field "name" is reported as ["a", "1", "name"]
PathCorrectnessWitness ==
    /\ Validated
    /\ schema.k = "object"
    /\ \E i \in 1..Len(OutIssues) :
        OutIssues[i].path = << <<"a">>, <<"1">>, <<"name">> >>

-----------------------------------------------------------------------------
(* C3 *)

\* what validate_field returns for a configured field of the root object
FieldResult(name) ==
    validate_field(schema.fields[name], MapGet(val.v, name))

ObjectValidated ==
    Validated /\ schema.k = "object" /\ val.t = "object"

\* C3: object validate evaluates every configured field: the issues under a
\* field name are exactly that field's issues with the name prepended, for
\* every configured field at once, and nothing else is reported but at most
\* one issue at the object's own root path; two failing fields with one
\* issue each yield exactly two issues when no key is unrecognized.
NoShortCircuitAcrossFields ==
    ObjectValidated =>
        /\ \A name \in DOMAIN schema.fields :
            Under(name, OutIssues) =
                Prefixed(name, IssuesOf(FieldResult(name)))
        /\ \A i \in 1..Len(OutIssues) :
            \/ OutIssues[i].path = <<>>
            \/ Head(OutIssues[i].path) \in DOMAIN schema.fields
        /\ Len(SelectSeq(OutIssues, LAMBDA x : x.path = <<>>)) <= 1
        /\ LET failing == {name \in DOMAIN schema.fields :
                                ~FieldResult(name).ok}
           IN  /\ Cardinality(failing) = 2
               /\ \A name \in failing : Len(IssuesOf(FieldResult(name))) = 1
               /\ ~schema.strict \/ (DOMAIN val.v) \subseteq (DOMAIN schema.fields)
               => Len(OutIssues) = 2

\* two required fields fail with one issue each, and two issues come back
NoShortCircuitAcrossFieldsWitness ==
    /\ ObjectValidated
    /\ DOMAIN schema.fields = {<<"a">>, <<"b">>}
    /\ \A name \in DOMAIN schema.fields :
        /\ ~schema.fields[name].optional
        /\ Len(IssuesOf(FieldResult(name))) = 1
    /\ Len(OutIssues) = 2

-----------------------------------------------------------------------------
(* C4 *)

IndexSegment(i) ==
    << <<"0">>, <<"1">>, <<"2">>, <<"3">>, <<"4">> >>[i + 1]

ElementResult(i) == Validate(schema.element_schema, val.v[i])

ArrayWithinBounds ==
    /\ Validated /\ schema.k = "array" /\ val.t = "array"
    /\ schema.min_length # <<>> => Len(val.v) >= schema.min_length[1]
    /\ schema.max_length # <<>> => Len(val.v) <= schema.max_length[1]

\* C4: for an array within the length bounds, the element schema runs on
\* every element; the issues are the concatenation, in ascending index order,
\* of each failing element's issues with the index prepended; Ok is returned
\* only when no element failed and holds the validated elements in order.
ArrayCollectsEveryElement ==
    ArrayWithinBounds =>
        /\ OutIssues =
            Flatten([i \in 1..Len(val.v) |->
                Prefixed(IndexSegment(i - 1), IssuesOf(ElementResult(i)))])
        /\ out.ok <=> \A i \in 1..Len(val.v) : ElementResult(i).ok
        /\ out.ok =>
            /\ Len(out.val.v) = Len(val.v)
            /\ \A i \in 1..Len(val.v) : out.val.v[i] = ElementResult(i).val
        /\ Tail(out.calls) =
            Flatten([i \in 1..Len(val.v) |-> ElementResult(i).calls])

\* both elements of a two-element array fail and both are reported, in order
ArrayCollectsEveryElementWitness ==
    /\ ArrayWithinBounds
    /\ Len(val.v) = 2
    /\ ~ElementResult(1).ok /\ ~ElementResult(2).ok
    /\ Len(OutIssues) = 2
    /\ OutIssues[1].path = << <<"0">> >>
    /\ OutIssues[2].path = << <<"1">> >>

-----------------------------------------------------------------------------
(* C5, C6 *)

UnionValidated == Validated /\ schema.k = "union"
VariantResult(i) == Validate(schema.schemas[i], val)
SomeVariantAccepts == \E i \in 1..Len(schema.schemas) : VariantResult(i).ok
FirstAccepting ==
    CHOOSE i \in 1..Len(schema.schemas) :
        VariantResult(i).ok /\ \A j \in 1..(i - 1) : ~VariantResult(j).ok

\* C5: a union returns Ok with the output of the first variant, in the order
\* of the variant() calls, that accepts the value; the variants after it are
\* not consulted.
UnionFirstMatchWins ==
    UnionValidated /\ SomeVariantAccepts =>
        /\ out.ok
        /\ out.val = VariantResult(FirstAccepting).val
        /\ Tail(out.calls) =
            Flatten([j \in 1..FirstAccepting |-> VariantResult(j).calls])

\* two variants accept the value with different outputs
UnionFirstMatchWinsWitness ==
    /\ UnionValidated
    /\ Len(schema.schemas) = 2
    /\ VariantResult(1).ok /\ VariantResult(2).ok
    /\ VariantResult(1).val # VariantResult(2).val
    /\ out.ok

\* C6: when every variant rejects the value (also when there is no variant)
\* the union returns exactly one issue, at the root path, whose error is
\* InvalidUnion with all the variants' issues, in variant order, duplicates
\* kept.
UnionAllVariantsFail ==
    UnionValidated /\ ~SomeVariantAccepts =>
        /\ ~out.ok
        /\ out.err.issues =
            << [path |-> <<>>,
                error |-> [kind |-> "InvalidUnion",
                           issues |-> Flatten([i \in 1..Len(schema.schemas) |->
                                        VariantResult(i).err.issues])]] >>

\* two variants reject the value with the same issue, reported twice
UnionAllVariantsFailWitness ==
    /\ UnionValidated
    /\ Len(schema.schemas) = 2
    /\ ~VariantResult(1).ok /\ ~VariantResult(2).ok
    /\ VariantResult(1).err.issues = VariantResult(2).err.issues
    /\ ~out.ok
    /\ Len(out.err.issues[1].error.issues) = 2

-----------------------------------------------------------------------------
(* C7, C8 *)

UnconfiguredKeys == (DOMAIN val.v) \ (DOMAIN schema.fields)

\* C7: in lenient mode a successful object validate copies every input key
\* that is not a configured field, with its value, into the output, and the
\* unconfigured keys cause no issue.
LenientPassesUnconfiguredKeys ==
    ObjectValidated /\ ~schema.strict =>
        /\ out.ok =>
            \A key \in UnconfiguredKeys :
                /\ key \in DOMAIN out.val.v
                /\ out.val.v[key] = val.v[key]
        /\ out.ok <=> \A name \in DOMAIN schema.fields : FieldResult(name).ok
        /\ \A i \in 1..Len(OutIssues) :
            /\ OutIssues[i].path # <<>>
            /\ Head(OutIssues[i].path) \in DOMAIN schema.fields

\* a lenient object with a configured field accepts an input with two
\* unconfigured keys
LenientPassesUnconfiguredKeysWitness ==
    /\ ObjectValidated
    /\ ~schema.strict
    /\ schema.fields # <<>>
    /\ Cardinality(UnconfiguredKeys) = 2
    /\ out.ok

RootIssues == SelectSeq(OutIssues, LAMBDA x : x.path = <<>>)

\* C8: in strict mode an input with unconfigured keys fails, with exactly one
\* UnrecognizedKeys issue at the root path of the object, listing exactly the
\* unconfigured input keys; an input without unconfigured keys gets no such
\* issue.
StrictReportsUnrecognizedKeys ==
    ObjectValidated /\ schema.strict =>
        IF UnconfiguredKeys # {}
        THEN /\ ~out.ok
             /\ Len(RootIssues) = 1
             /\ RootIssues[1].error.kind = "UnrecognizedKeys"
             /\ {RootIssues[1].error.keys[i] :
                    i \in 1..Len(RootIssues[1].error.keys)} = UnconfiguredKeys
             /\ Len(RootIssues[1].error.keys) = Cardinality(UnconfiguredKeys)
        ELSE RootIssues = <<>>

\* a strict object gets an input with two unconfigured keys
StrictReportsUnrecognizedKeysWitness ==
    /\ ObjectValidated
    /\ schema.strict
    /\ Cardinality(UnconfiguredKeys) = 2
    /\ Len(RootIssues) = 1

-----------------------------------------------------------------------------
(* C9, C10 *)

\* the object schema without one of its fields
WithoutField(s, name) ==
    [s EXCEPT !.fields = [n \in (DOMAIN s.fields) \ {name} |-> s.fields[n]],
              !.order = SelectSeq(s.order, LAMBDA n : n # name)]

\* the validate calls below the root are those made without the field
NotInvoked(name) ==
    Tail(out.calls) = Tail(Validate(WithoutField(schema, name), val).calls)

NoValue(name) == name \notin DOMAIN val.v \/ val.v[name].t = "null"

\* C9: an optional field whose key is absent or null produces no issue, its
\* schema is not invoked and the key is absent from the output; a present
\* non-null value is validated by the field's schema and its failures are
\* reported under the field name.
OptionalFieldWithoutValue ==
    ObjectValidated =>
        \A name \in DOMAIN schema.fields :
            schema.fields[name].optional =>
                IF NoValue(name)
                THEN /\ Under(name, OutIssues) = <<>>
                     /\ NotInvoked(name)
                     /\ out.ok => name \notin DOMAIN out.val.v
                ELSE /\ Under(name, OutIssues) =
                            Prefixed(name, IssuesOf(
                                Validate(schema.fields[name].schema,
                                         val.v[name])))
                     /\ ~NotInvoked(name)

\* an optional field whose schema rejects null is given null, and the object
\* is accepted
OptionalFieldWithoutValueWitness ==
    /\ ObjectValidated
    /\ \E name \in DOMAIN schema.fields :
        /\ schema.fields[name].optional
        /\ name \in DOMAIN val.v
        /\ val.v[name].t = "null"
        /\ ~Validate(schema.fields[name].schema, val.v[name]).ok
    /\ out.ok

\* C10: a required field whose key is missing yields exactly one issue for
\* that field, Required at path [field name], and its schema is not invoked.
RequiredFieldMissing ==
    ObjectValidated =>
        \A name \in DOMAIN schema.fields :
            ~schema.fields[name].optional /\ name \notin DOMAIN val.v =>
                /\ Under(name, OutIssues) =
                        << [path |-> <<name>>, error |-> [kind |-> "Required"]] >>
                /\ NotInvoked(name)

\* the input lacks the required field "a" and holds the configured field "b"
RequiredFieldMissingWitness ==
    /\ ObjectValidated
    /\ DOMAIN schema.fields = {<<"a">>, <<"b">>}
    /\ ~schema.fields[<<"a">>].optional
    /\ <<"a">> \notin DOMAIN val.v
    /\ <<"b">> \in DOMAIN val.v
    /\ ~out.ok

-----------------------------------------------------------------------------
(* C11 *)

OptionalValidated == Validated /\ schema.k = "optional"
InnerResult == Validate(schema.inner, val)

\* C11: the optional wrapper returns Ok(None) for null without calling the
\* inner schema; for any other input it returns Ok(Some(v)) exactly when the
\* inner schema returns Ok(v), and otherwise the inner schema's issues as they
\* are.
OptionalWrapper ==
    OptionalValidated =>
        IF val.t = "null"
        THEN /\ out.ok
             /\ out.val = [t |-> "none"]
             /\ Tail(out.calls) = <<>>
        ELSE /\ out.ok <=> InnerResult.ok
             /\ out.ok => out.val = [t |-> "some", v |-> InnerResult.val]
             /\ ~out.ok => out.err = InnerResult.err
             /\ Tail(out.calls) = InnerResult.calls

\* the inner schema rejects null, and the wrapper accepts it
OptionalWrapperWitness ==
    /\ OptionalValidated
    /\ val.t = "null"
    /\ ~InnerResult.ok
    /\ out.ok

-----------------------------------------------------------------------------
(* C12 *)

NumberValidated == Validated /\ schema.k = "number" /\ val.t = "number"

\* number() with exactly one of the flags set and no bound
Only(flag) == schema = [NumberSchema EXCEPT ![flag] = TRUE]

\* the input number, counted in halves
Halves == val.v

\* C12: int() accepts a number iff its fractional part is zero, positive()
\* iff it is greater than 0, nonnegative() iff it is at least 0, negative()
\* iff it is less than 0, nonpositive() iff it is at most 0; in combination
\* with other constraints each of them stays necessary for acceptance.
NumberSignAndInteger ==
    NumberValidated =>
        /\ Only("integer") => (out.ok <=> Halves % 2 = 0)
        /\ Only("positive") => (out.ok <=> Halves > 0)
        /\ Only("nonnegative") => (out.ok <=> Halves >= 0)
        /\ Only("negative") => (out.ok <=> Halves < 0)
        /\ Only("nonpositive") => (out.ok <=> Halves <= 0)
        /\ out.ok =>
            /\ schema.integer => Halves % 2 = 0
            /\ schema.positive => Halves > 0
            /\ schema.nonnegative => Halves >= 0
            /\ schema.negative => Halves < 0
            /\ schema.nonpositive => Halves <= 0
            /\ out.val = [t |-> "number", v |-> Halves]

\* number().positive() rejects 0
NumberSignAndIntegerWitness ==
    /\ NumberValidated
    /\ Only("positive")
    /\ Halves = 0
    /\ ~out.ok
    /\ out.err.issues =
        << [path |-> <<>>,
            error |-> [kind |-> "InvalidNumber", constraint |-> "Positive"]] >>

-----------------------------------------------------------------------------
(* C13 *)

ArrayValidated == Validated /\ schema.k = "array" /\ val.t = "array"
BelowMin == schema.min_length # <<>> /\ Len(val.v) < schema.min_length[1]
AboveMax == schema.max_length # <<>> /\ Len(val.v) > schema.max_length[1]

\* C13: an array whose length is below min or above max gets exactly one
\* issue, at the root path, TooSmall (below min) or else TooBig, with origin
\* Array, the bound and inclusive, and no element is validated.
ArrayLengthBoundsFirst ==
    ArrayValidated /\ (BelowMin \/ AboveMax) =>
        /\ ~out.ok
        /\ out.err.issues =
            << [path |-> <<>>,
                error |->
                    IF BelowMin
                    THEN [kind |-> "TooSmall", origin |-> "Array",
                          minimum |-> IndexSegment(schema.min_length[1]),
                          inclusive |-> TRUE]
                    ELSE [kind |-> "TooBig", origin |-> "Array",
                          maximum |-> IndexSegment(schema.max_length[1]),
                          inclusive |-> TRUE]] >>
        /\ Tail(out.calls) = <<>>

\* a too short array, whose only element is itself invalid
ArrayLengthBoundsFirstWitness ==
    /\ ArrayValidated
    /\ BelowMin
    /\ Len(val.v) = 1
    /\ ~ElementResult(1).ok
    /\ Len(OutIssues) = 1
    /\ OutIssues[1].error.kind = "TooSmall"

-----------------------------------------------------------------------------
(* C14 *)

TupleValidated == Validated /\ schema.k = "tuple" /\ val.t = "array"

\* C14: a tuple given an array of another length than its number of elements
\* returns exactly one issue, at the root path, a Custom error naming the
\* expected and the actual length, and validates no element; a tuple without
\* elements accepts the empty array and nothing else.
TupleLengthMismatch ==
    /\ TupleValidated /\ Len(val.v) # Len(schema.elements) =>
        /\ ~out.ok
        /\ out.err.issues =
            << [path |-> <<>>,
                error |-> [kind |-> "Custom",
                           message |->
                               <<"Expected tuple of ">>
                               \o IndexSegment(Len(schema.elements))
                               \o <<" elements, got ">>
                               \o IndexSegment(Len(val.v))]] >>
        /\ Tail(out.calls) = <<>>
    /\ Validated /\ schema.k = "tuple" /\ schema.elements = <<>> =>
        /\ out.ok <=> val = [t |-> "array", v |-> <<>>]
        /\ out.ok => out.val = [t |-> "array", v |-> <<>>]

\* a two-element tuple is given a one-element array whose element the first
\* element schema would reject
TupleLengthMismatchWitness ==
    /\ TupleValidated
    /\ Len(schema.elements) = 2
    /\ Len(val.v) = 1
    /\ ~Validate(schema.elements[1], val.v[1]).ok
    /\ Len(OutIssues) = 1
    /\ OutIssues[1].error.kind = "Custom"

-----------------------------------------------------------------------------
(* C15 *)

\* what the i-th configured element schema returns for the i-th position
PositionResult(i) == Validate(schema.elements[i], val.v[i])

\* C15: a tuple given an array of matching length validates position i
\* against the i-th element schema, every position whatever the earlier ones
\* returned; the issues of position i carry the index i in front of their
\* paths, in ascending order of position; Ok is returned iff every position
\* succeeds, with the validated elements in order.
TuplePositions ==
    TupleValidated /\ Len(val.v) = Len(schema.elements) =>
        /\ OutIssues =
            Flatten([i \in 1..Len(val.v) |->
                Prefixed(IndexSegment(i - 1), IssuesOf(PositionResult(i)))])
        /\ out.ok <=> \A i \in 1..Len(val.v) : PositionResult(i).ok
        /\ out.ok =>
            /\ out.val.t = "array"
            /\ Len(out.val.v) = Len(val.v)
            /\ \A i \in 1..Len(val.v) :
                out.val.v[i] = to_value(PositionResult(i).val)
        /\ Tail(out.calls) =
            Flatten([i \in 1..Len(val.v) |-> PositionResult(i).calls])

\* two positions with different element schemas both fail, and the second
\* value would have passed the first schema
TuplePositionsWitness ==
    /\ TupleValidated
    /\ Len(schema.elements) = 2
    /\ Len(val.v) = 2
    /\ ~PositionResult(1).ok /\ ~PositionResult(2).ok
    /\ Validate(schema.elements[1], val.v[2]).ok
    /\ Len(OutIssues) = 2
    /\ OutIssues[1].path = << <<"0">> >>
    /\ OutIssues[2].path = << <<"1">> >>

-----------------------------------------------------------------------------
(* C16 *)

\* a schema whose only constraints are min and max, given a value of its type
StringBounded ==
    /\ Validated /\ schema.k = "string" /\ val.t = "string"
    /\ schema = [StringSchema EXCEPT !.min_length = schema.min_length,
                                     !.max_length = schema.max_length]
NumberBounded ==
    /\ NumberValidated
    /\ schema = [NumberSchema EXCEPT !.min = schema.min, !.max = schema.max]
ArrayBounded ==
    /\ ArrayValidated
    /\ \A i \in 1..Len(val.v) : ElementResult(i).ok

\* the number of bytes of the UTF-8 encoding of the input string
ByteLength == IF val.v = <<"é">> THEN 2 ELSE Len(val.v)

\* min <= measure <= max, where a bound that is not set holds
Within(min, measure, max) ==
    /\ min # <<>> => min[1] <= measure
    /\ max # <<>> => measure <= max[1]

\* C16: min and max are inclusive: a string schema (byte length), an array
\* schema with valid elements (element count) and a number schema (value)
\* configured only with min and max accept a value of their type iff
\* min <= measure <= max; with length(n) iff the measure equals n; with
\* min > max never.
InclusiveBounds ==
    /\ StringBounded =>
        /\ out.ok <=> Within(schema.min_length, ByteLength, schema.max_length)
        /\ schema.min_length # <<>> /\ schema.min_length = schema.max_length
            => (out.ok <=> ByteLength = schema.min_length[1])
    /\ ArrayBounded =>
        /\ out.ok <=> Within(schema.min_length, Len(val.v), schema.max_length)
        /\ schema.min_length # <<>> /\ schema.min_length = schema.max_length
            => (out.ok <=> Len(val.v) = schema.min_length[1])
    /\ NumberBounded =>
        out.ok <=> Within(schema.min, Halves, schema.max)
    /\ (/\ StringBounded \/ ArrayBounded
        /\ schema.min_length # <<>> /\ schema.max_length # <<>>
        /\ schema.min_length[1] > schema.max_length[1]) => ~out.ok
    /\ (/\ NumberBounded
        /\ schema.min # <<>> /\ schema.max # <<>>
        /\ schema.min[1] > schema.max[1]) => ~out.ok

\* string().length(2) accepts "é", one character of two bytes
InclusiveBoundsWitness ==
    /\ StringBounded
    /\ schema.min_length = <<2>>
    /\ schema.max_length = <<2>>
    /\ val.v = <<"é">>
    /\ out.ok

-----------------------------------------------------------------------------
(* C17 *)

\* the shape of value a schema takes, and the type it expects
Shape(s) ==
    CASE s.k = "string" -> "string"
      [] s.k = "number" -> "number"
      [] s.k = "boolean" -> "bool"
      [] s.k = "null" -> "null"
      [] s.k = "array" -> "array"
      [] s.k = "tuple" -> "array"
      [] s.k = "object" -> "object"
TypeName(shape) ==
    CASE shape = "string" -> <<"String">>
      [] shape = "number" -> <<"Number">>
      [] shape = "bool" -> <<"Bool">>
      [] shape = "null" -> <<"Null">>
      [] shape = "array" -> <<"Array">>
      [] shape = "object" -> <<"Object">>

OtherShape ==
    /\ Validated
    /\ schema.k \in {"string", "number", "boolean", "null", "array", "tuple",
                     "object"}
    /\ val.t # Shape(schema)

\* C17: a string, number, boolean, null, array, tuple or object schema given
\* a value of another shape returns exactly one issue, at the root path,
\* InvalidType with the schema's type as expected and the input's shape as
\* received, and nothing below the schema is validated.
NoCoercion ==
    OtherShape =>
        /\ ~out.ok
        /\ out.err.issues =
            << [path |-> <<>>,
                error |-> [kind |-> "InvalidType",
                           expected |-> TypeName(Shape(schema)),
                           input |-> TypeName(val.t)]] >>
        /\ Tail(out.calls) = <<>>

\* boolean() is given the integer 1
NoCoercionWitness ==
    /\ OtherShape
    /\ schema.k = "boolean"
    /\ val = [t |-> "number", v |-> 2, int |-> TRUE]
    /\ ~out.ok

-----------------------------------------------------------------------------
(* C18 *)

\* the schemas that the sequence of builder calls that built s can build:
\* every HashMap that holds the same entries, in each of its iteration orders
SameBuilderCalls(s) ==
    IF s.k = "object"
    THEN {[s EXCEPT !.order = o] : o \in Orders(DOMAIN s.fields)}
    ELSE {s}

\* the same Ok value, or the same issues in the same order
SameOutcome(r1, r2) ==
    /\ r1.ok = r2.ok
    /\ r1.ok => r1.val = r2.val
    /\ ~r1.ok => r1.err.issues = r2.err.issues

\* C18: the outcome of validate is a function of the schema's configuration
\* and the value: the schema validates the value to the same outcome whenever
\* it is asked, and every schema configured by the same sequence of builder
\* calls returns the same Ok value or the same issues in the same order.
OutcomeDeterminedByConfiguration ==
    Validated =>
        /\ SameOutcome(out, Validate(schema, val))
        /\ \A s \in SameBuilderCalls(schema) :
            SameOutcome(out, Validate(s, val))

-----------------------------------------------------------------------------
(* C19 *)

\* the unions that hold the variants of s in another order
Reordered(s) ==
    {[s EXCEPT !.schemas = [i \in 1..Len(s.schemas) |-> s.schemas[o[i]]]] :
        o \in Orders(1..Len(s.schemas))}

\* C19: a union accepts a value iff at least one of its variants accepts it,
\* so a union of the same variants in any other order accepts exactly the
\* same values.
UnionAcceptanceOrderIndependent ==
    UnionValidated =>
        /\ out.ok <=> SomeVariantAccepts
        /\ \A s \in Reordered(schema) : Validate(s, val).ok = out.ok

\* only the second variant accepts the value
UnionAcceptanceOrderIndependentWitness ==
    /\ UnionValidated
    /\ Len(schema.schemas) = 2
    /\ schema.schemas[1] # schema.schemas[2]
    /\ ~VariantResult(1).ok
    /\ VariantResult(2).ok
    /\ out.ok

-----------------------------------------------------------------------------
(* C20 *)

Parsed(op) == parsed # None /\ Unwrap(parsed).op = op
ret == Unwrap(parsed).returned

\* C20: safe_parse returns exactly what validate returns for the schema and
\* the value; parse panics on exactly the values for which validate returns
\* Err, and otherwise returns the Ok value of validate.
ConvenienceAgreesWithValidate ==
    /\ Parsed("safe_parse") => ret = Validate(schema, val)
    /\ Parsed("parse") =>
        /\ ret.panicked <=> ~Validate(schema, val).ok
        /\ ~ret.panicked => ret.val = Validate(schema, val).val

\* parse panics on a value that validate rejects
ConvenienceAgreesWithValidateWitness ==
    /\ Parsed("parse")
    /\ ~Validate(schema, val).ok
    /\ ret.panicked


-----------------------------------------------------------------------------
(* Vocabulary of the properties of zod_rs_util *)

LastCall == history[Len(history)]
Converted ==
    /\ history # <<>>
    /\ LastCall.op = "into_result"
    /\ reply # None
conversion == reply[1]

-----------------------------------------------------------------------------
(* C21 *)

\* C21: ValidationResult::into_result never panics: on a result without
\* issues it returns a normal Ok, and on a result with one or more issues
\* it returns Err carrying the same issues unchanged (is_empty <=> success).
IntoResultNeverPanics ==
    Converted =>
        /\ ~conversion.panicked
        /\ conversion.ok <=> is_empty(held)
        /\ ~conversion.ok => conversion.err.issues = held.issues

-----------------------------------------------------------------------------
(* C22 *)

AppendCalls == {"add_error", "add_issue", "add_error_at_path", "merge"}
OnlyAppends == \A i \in DOMAIN history : history[i].op \in AppendCalls
\* the issues a call hands over, in the order it hands them over
Handed(call) ==
    CASE call.op = "add_error" -> <<Issue(<<>>, call.error)>>
      [] call.op = "add_issue" -> <<call.issue>>
      [] call.op = "add_error_at_path" -> <<Issue(call.path, call.error)>>
      [] call.op = "merge" -> call.other.issues
      [] OTHER -> <<>>
HandedSoFar == Flatten([i \in DOMAIN history |-> Handed(history[i])])

\* C22: after any sequence of add_error, add_issue, add_error_at_path and
\* merge calls on a result that started empty, the issue list is exactly the
\* issues handed over, in call order (add_error with the empty path, merge
\* the other result's issues in their order after the existing ones), len()
\* is their number, and is_empty() holds iff nothing was appended.
AppendsInCallOrder ==
    OnlyAppends =>
        /\ held.issues = HandedSoFar
        /\ issues_len(held) = Len(HandedSoFar)
        /\ is_empty(held) <=> HandedSoFar = <<>>
AppendsInCallOrderWitness ==
    /\ OnlyAppends
    /\ Len(history) = 3
    /\ history[1].op = "add_error"
    /\ history[2].op = "merge"
    /\ Len(history[2].other.issues) = 2
    /\ history[3].op = "add_error_at_path"
    /\ history[3].path # <<>>
    /\ issues_len(held) = 4
    /\ ~is_empty(held)

-----------------------------------------------------------------------------
(* C23 *)

\* a step that is a prefix_path call
PrefixStep ==
    /\ Len(history') = Len(history) + 1
    /\ history'[Len(history')].op = "prefix_path"
step_prefix == history'[Len(history')].prefix

\* C23: prefix_path(p) inserts p at the front of the path of every issue
\* held and changes nothing else: number and order of the issues, each
\* issue's error and the rest of its path stay; after a call with a and then
\* one with b every path starts with [b, a, ...]; on an empty result it is a
\* no-op.
PrefixPathFrame ==
    [][PrefixStep =>
        /\ Len(held'.issues) = Len(held.issues)
        /\ \A i \in DOMAIN held.issues :
            /\ held'.issues[i].error = held.issues[i].error
            /\ held'.issues[i].path = <<step_prefix>> \o held.issues[i].path
            /\ (history # <<>> /\ LastCall.op = "prefix_path") =>
                SubSeq(held'.issues[i].path, 1, 2) = <<step_prefix, LastCall.prefix>>
        /\ is_empty(held) => held' = held
      ]_vars
PrefixPathFrameWitness ==
    /\ Len(history) = 3
    /\ history[1].op = "merge"
    /\ history[2] = [op |-> "prefix_path", prefix |-> <<"a">>]
    /\ history[3] = [op |-> "prefix_path", prefix |-> <<"b">>]
    /\ Len(held.issues) = 2
    /\ held.issues[1] = Issue(<< <<"b">>, <<"a">> >>, Custom(<<"m">>))
    /\ held.issues[2] = Issue(<< <<"b">>, <<"a">>, <<"age">> >>, Required)

-----------------------------------------------------------------------------
(* C24 *)

\* the state right after a from_code call
Decoded == Len(history) = 1 /\ history[1].op = "from_code"
given_code == history[1].code
FrenchCodes == {<<"f", "r">>, <<"F", "r">>, <<"f", "R">>, <<"F", "R">>}
ArabicCodes == {<<"a", "r">>, <<"A", "r">>, <<"a", "R">>, <<"A", "R">>}

\* C24: Locale::from_code maps "fr" to French and "ar" to Arabic, whatever
\* the case of the letters, and every other code ("en", the empty string,
\* unknown tags) to English; it never fails.
FromCodeDefaultsToEnglish ==
    Decoded =>
        /\ reply # None
        /\ given_code \in FrenchCodes => reply = Some("Fr")
        /\ given_code \in ArabicCodes => reply = Some("Ar")
        /\ given_code \notin FrenchCodes \cup ArabicCodes => reply = Some("En")
FromCodeDefaultsToEnglishWitness ==
    /\ Decoded
    /\ given_code = <<"F", "r">>
    /\ reply = Some("Fr")

-----------------------------------------------------------------------------
(* C25 *)

\* the state right after a TooBig / TooSmall error was rendered
Rendered == Len(history) = 2 /\ history[2].op = "local"
lang == history[2].lang
rendered == history[2].error
message == reply[1]
HasPiece(str, piece) == \E i \in DOMAIN str : <<str[i]>> = piece
EndsWith(str, suffix) ==
    /\ Len(str) >= Len(suffix)
    /\ SubSeq(str, Len(str) - Len(suffix) + 1, Len(str)) = suffix
SizablesOf(locale) ==
    CASE locale = "En" -> En_SIZABLES
      [] locale = "Fr" -> Fr_sizable
      [] locale = "Ar" -> Ar_SIZABLES
sizing == get_sizable(SizablesOf(lang), rendered.origin)
\* the units of the locale's table that belong to other origins
OtherUnits ==
    {SizablesOf(lang)[o].unit : o \in DOMAIN SizablesOf(lang) \ {rendered.origin}}
UsesOwnUnitAndVerb ==
    /\ IsSome(sizing)
    /\ HasPiece(message, Unwrap(sizing).unit)
    /\ HasPiece(message, Unwrap(sizing).verb)
    /\ \A unit \in OtherUnits \ {Unwrap(sizing).unit} : ~HasPiece(message, unit)

\* C25 as stated: a unit-and-verb pair exists for each of the origins
\* String, Array and Number in every locale, and the rendered TooBig /
\* TooSmall message of each of these origins uses its own unit and verb.
SizableForEveryOrigin ==
    (Rendered /\ rendered.origin \in {"String", "Array", "Number"}) =>
        UsesOwnUnitAndVerb

\* C25, amended: a pair exists for String and for Array in every locale, and
\* their TooBig / TooSmall messages use the origin's own unit and verb; no
\* locale has a pair for Number, whose message takes the locale's form
\* without a unit and ends with the bound.
SizableForStringAndArray ==
    Rendered =>
        /\ rendered.origin \in {"String", "Array"} => UsesOwnUnitAndVerb
        /\ rendered.origin = "Number" =>
            /\ sizing = None
            /\ \A unit \in OtherUnits : ~HasPiece(message, unit)
            /\ EndsWith(message, adj(rendered) \o bound(rendered))
               \/ EndsWith(message, adj(rendered) \o <<" ">> \o bound(rendered))
SizableForStringAndArrayWitness ==
    /\ Rendered
    /\ lang = "Fr"
    /\ rendered = TooBig("String", usize_to_string(3), TRUE)
    /\ message = <<"Trop grand: ", "string", " doit ", "avoir", " ", "<=", "3",
                   " ", "caractères">>
NumberHasNoUnit ==
    /\ Rendered
    /\ lang = "En"
    /\ rendered = TooSmall("Number", usize_to_string(15), TRUE)
    /\ message = <<"Too small: expected ", "number", " to have ", ">=", " ",
                   "1", "5">>

-----------------------------------------------------------------------------
(* C26 *)

\* a required field of the root object whose key holds an explicit null
NullGiven(name) ==
    /\ name \in DOMAIN schema.fields
    /\ ~schema.fields[name].optional
    /\ name \in DOMAIN val.v
    /\ val.v[name].t = "null"
\* the root object with the field configured by optional_field instead
AsOptionalField(name) ==
    [schema EXCEPT !.fields[name] = OptionalFieldValidator(@.schema)]

\* C26: a required field whose key is present with an explicit null is not
\* treated as absent: the null is handed to the field's schema, so a string,
\* number, boolean, array or object field schema rejects the object with its
\* InvalidType issue under [field name], not with Required; the same input
\* raises no issue for the field once it is configured with optional_field.
NullForRequiredField ==
    ObjectValidated =>
        \A name \in FieldNames :
            NullGiven(name) =>
                /\ ~NotInvoked(name)
                /\ Under(name, OutIssues) =
                        Prefixed(name, IssuesOf(
                            Validate(schema.fields[name].schema, Null)))
                /\ schema.fields[name].schema.k \in
                        {"string", "number", "boolean", "array", "object"} =>
                    /\ ~out.ok
                    /\ Len(Under(name, OutIssues)) = 1
                    /\ Under(name, OutIssues)[1].path = <<name>>
                    /\ Under(name, OutIssues)[1].error.kind = "InvalidType"
                    /\ Under(name, OutIssues)[1].error.expected =
                            TypeName(Shape(schema.fields[name].schema))
                /\ LET lenient == Validate(AsOptionalField(name), val) IN
                    /\ Under(name, IssuesOf(lenient)) = <<>>
                    /\ Len(OutIssues) = Len(Under(name, OutIssues)) => lenient.ok
\* field("a", string().min(2)) is given {"a": null}
NullForRequiredFieldWitness ==
    /\ ObjectValidated
    /\ NullGiven(<<"a">>)
    /\ schema.fields[<<"a">>].schema = Str2
    /\ val.v = (<<"a">> :> Null)
    /\ OutIssues = << [path |-> << <<"a">> >>,
                       error |-> [kind |-> "InvalidType",
                                  expected |-> <<"String">>,
                                  input |-> <<"Null">>]] >>
    /\ Validate(AsOptionalField(<<"a">>), val).ok

-----------------------------------------------------------------------------
(* C27 *)

PrimitiveValidated ==
    /\ Validated
    /\ schema.k \in {"string", "number", "boolean", "null", "literal"}

\* the checks of a string and of a number schema, in the order stated
StringChecks ==
    <<"type", "min length", "max length", "starts-with", "ends-with",
      "includes", "regex", "email", "url">>
NumberChecks ==
    <<"type", "integer", "finite", "min", "max", "positive", "negative",
      "nonnegative", "nonpositive">>

\* the root schema has the check configured and the input violates it
Violates(check) ==
    IF check = "type" THEN val.t # Shape(schema)
    ELSE /\ val.t = Shape(schema)
         /\ CASE check = "min length" ->
                    schema.min_length # None /\ ByteLength < schema.min_length[1]
              [] check = "max length" ->
                    schema.max_length # None /\ ByteLength > schema.max_length[1]
              [] check = "starts-with" ->
                    schema.starts_with # None
                    /\ (val.v = <<>> \/ <<Head(val.v)>> # schema.starts_with[1])
              [] check = "ends-with" ->
                    schema.ends_with # None
                    /\ (val.v = <<>>
                        \/ <<val.v[Len(val.v)]>> # schema.ends_with[1])
              [] check = "includes" ->
                    schema.includes # None
                    /\ \A i \in DOMAIN val.v : <<val.v[i]>> # schema.includes[1]
              [] check = "regex" ->
                    schema.pattern # None
                    /\ (val.v = <<>>
                        \/ \E i \in DOMAIN val.v :
                            val.v[i] \notin schema.pattern[1].chars)
              [] check = "email" ->
                    schema.email /\ val.v # <<"a", "@", "b", ".", "c">>
              [] check = "url" ->
                    schema.url /\ val.v # <<"h", "t", "t", "p", ":", "/", "/">>
              [] check = "integer" -> schema.integer /\ Halves % 2 = 1
              [] check = "finite" -> FALSE
              [] check = "min" -> schema.min # None /\ Halves < schema.min[1]
              [] check = "max" -> schema.max # None /\ Halves > schema.max[1]
              [] check = "positive" -> schema.positive /\ Halves <= 0
              [] check = "negative" -> schema.negative /\ Halves >= 0
              [] check = "nonnegative" -> schema.nonnegative /\ Halves < 0
              [] check = "nonpositive" -> schema.nonpositive /\ Halves > 0

\* the check an error reports
CheckOf(error) ==
    CASE error.kind = "InvalidType" /\ error.expected = <<"Custom", <<"integer">> >> ->
            "integer"
      [] error.kind = "InvalidType" /\ error.expected # <<"Custom", <<"integer">> >> ->
            "type"
      [] error.kind = "TooSmall" /\ error.origin = "String" -> "min length"
      [] error.kind = "TooBig" /\ error.origin = "String" -> "max length"
      [] error.kind = "TooSmall" /\ error.origin = "Number" -> "min"
      [] error.kind = "TooBig" /\ error.origin = "Number" -> "max"
      [] error.kind = "InvalidFormat" /\ error.format = <<"StartsWith">> -> "starts-with"
      [] error.kind = "InvalidFormat" /\ error.format = <<"EndsWith">> -> "ends-with"
      [] error.kind = "InvalidFormat" /\ error.format = <<"Includes">> -> "includes"
      [] error.kind = "InvalidFormat" /\ error.format = <<"Regex">> -> "regex"
      [] error.kind = "InvalidFormat" /\ error.format = <<"Custom", <<"email">> >> -> "email"
      [] error.kind = "InvalidFormat" /\ error.format = <<"Custom", <<"url">> >> -> "url"
      [] error.kind = "InvalidNumber" /\ error.constraint = "Finite" -> "finite"
      [] error.kind = "InvalidNumber" /\ error.constraint = "Positive" -> "positive"
      [] error.kind = "InvalidNumber" /\ error.constraint = "Negative" -> "negative"
      [] error.kind = "InvalidNumber" /\ error.constraint = "NonNegative" -> "nonnegative"
      [] error.kind = "InvalidNumber" /\ error.constraint = "NonPositive" -> "nonpositive"
      [] OTHER -> "other"

\* the positions of the checks the input violates
Violated(checks) == {i \in DOMAIN checks : Violates(checks[i])}
Earliest(positions) == CHOOSE i \in positions : \A j \in positions : i <= j

\* the one issue reports the earliest violated check, and there is no issue
\* when no check is violated
ReportsEarliest(checks) ==
    IF Violated(checks) = {} THEN out.ok
    ELSE /\ ~out.ok
         /\ Len(OutIssues) = 1
         /\ CheckOf(OutIssues[1].error) = checks[Earliest(Violated(checks))]

\* C27: a string, number, boolean, null or literal schema returns at most
\* one issue per call, with the empty path: the first failing check in the
\* fixed order (string: type, min length, max length, starts-with,
\* ends-with, includes, regex, email, url; number: type, integer, finite,
\* min, max, positive, negative, nonnegative, nonpositive), so a value
\* violating several constraints is reported for the earliest one only.
PrimitivesShortCircuit ==
    PrimitiveValidated =>
        /\ Len(OutIssues) <= 1
        /\ \A i \in DOMAIN OutIssues : OutIssues[i].path = <<>>
        /\ Tail(out.calls) = <<>>
        /\ schema.k = "string" => ReportsEarliest(StringChecks)
        /\ schema.k = "number" => ReportsEarliest(NumberChecks)
\* number().min(0.0).positive() is given -1.5, which violates both, and
\* reports its bound, not its sign
PrimitivesShortCircuitWitness ==
    /\ PrimitiveValidated
    /\ schema = [NumberSchema EXCEPT !.min = Some(0), !.positive = TRUE]
    /\ val = Number(0 - 3)
    /\ Cardinality(Violated(NumberChecks)) = 2
    /\ OutIssues = <<Issue(<<>>, TooSmall("Number", f64_to_string(0), TRUE))>>
\* string().regex("^[a-z]+$").email() is given "é", which violates both, and
\* reports the pattern
StringReportsEarliest ==
    /\ PrimitiveValidated
    /\ schema = [StringSchema EXCEPT !.pattern = Some(LowerCase), !.email = TRUE]
    /\ val = String(<<"é">>)
    /\ Cardinality(Violated(StringChecks)) = 2
    /\ CheckOf(OutIssues[1].error) = "regex"

-----------------------------------------------------------------------------
(* C28 *)

\* the constituents of the root composite that are unions and are handed a
\* value: the path segment, the union and the value
UnionConstituents ==
    CASE schema.k = "array" /\ ArrayWithinBounds
            /\ schema.element_schema.k = "union" ->
            {[segment |-> IndexSegment(i - 1), union |-> schema.element_schema,
              value |-> val.v[i]] : i \in 1..Len(val.v)}
      [] schema.k = "tuple" /\ val.t = "array"
            /\ Len(val.v) = Len(schema.elements) ->
            {[segment |-> IndexSegment(i - 1), union |-> schema.elements[i],
              value |-> val.v[i]] :
                i \in {j \in 1..Len(val.v) : schema.elements[j].k = "union"}}
      [] schema.k = "object" /\ val.t = "object" ->
            {[segment |-> name, union |-> schema.fields[name].schema,
              value |-> val.v[name]] :
                name \in {n \in DOMAIN schema.fields \cap DOMAIN val.v :
                            /\ schema.fields[n].schema.k = "union"
                            /\ ~(schema.fields[n].optional /\ val.v[n].t = "null")}}
      [] OTHER -> {}

\* the issues of the variants of a union for a value, as the variants
\* return them
VariantIssues(u, value) ==
    Flatten([j \in 1..Len(u.schemas) |->
        IssuesOf(Validate(u.schemas[j], value))])

\* C28: when a union fails inside an object field, array element or tuple
\* position, the parent prepends its path segment to the outer InvalidUnion
\* issue only; the issues nested in the InvalidUnion error are untouched and
\* carry paths relative to the value the union was applied to.
NestedUnionIssuesKeepPaths ==
    Validated =>
        \A c \in UnionConstituents :
            ~Validate(c.union, c.value).ok =>
                Under(c.segment, OutIssues) =
                    << [path |-> <<c.segment>>,
                        error |-> [kind |-> "InvalidUnion",
                                   issues |-> VariantIssues(c.union, c.value)]] >>
\* array(union of the two name objects) is given [{"name": "x"}]
NestedUnionIssuesKeepPathsWitness ==
    /\ Validated
    /\ schema.k = "array"
    /\ schema.element_schema = ObjUnion
    /\ val = Array(<<NameX>>)
    /\ Len(OutIssues) = 1
    /\ OutIssues[1].path = << <<"0">> >>
    /\ OutIssues[1].error.kind = "InvalidUnion"
    /\ Len(OutIssues[1].error.issues) = 2
    /\ \A j \in 1..2 : OutIssues[1].error.issues[j].path = << <<"name">> >>

-----------------------------------------------------------------------------
(* C29 *)

StrictWithUnconfiguredKeys ==
    ObjectValidated /\ schema.strict /\ UnconfiguredKeys # {}
FailingFields == {name \in DOMAIN schema.fields : ~FieldResult(name).ok}

\* C29: in strict mode the unrecognized-key check neither replaces nor
\* suppresses field validation: every configured field is validated, and an
\* input with failing fields and unconfigured keys gets all the field issues
\* followed by the single UnrecognizedKeys issue, which is the last issue.
StrictKeepsFieldIssues ==
    StrictWithUnconfiguredKeys =>
        /\ ~out.ok
        /\ Tail(out.calls) =
            Flatten([i \in DOMAIN schema.order |-> FieldResult(schema.order[i]).calls])
        /\ \A name \in DOMAIN schema.fields :
            Under(name, OutIssues) = Prefixed(name, IssuesOf(FieldResult(name)))
        /\ OutIssues[Len(OutIssues)].path = <<>>
        /\ OutIssues[Len(OutIssues)].error.kind = "UnrecognizedKeys"
        /\ \A i \in 1..(Len(OutIssues) - 1) :
            /\ OutIssues[i].path # <<>>
            /\ Head(OutIssues[i].path) \in FailingFields
\* a strict object with two failing fields is given two unconfigured keys
StrictKeepsFieldIssuesWitness ==
    /\ StrictWithUnconfiguredKeys
    /\ Cardinality(FailingFields) = 2
    /\ Cardinality(UnconfiguredKeys) = 2
    /\ Len(OutIssues) = 3
    /\ OutIssues[1].path # <<>>
    /\ OutIssues[2].path # <<>>
    /\ OutIssues[3].error.kind = "UnrecognizedKeys"

-----------------------------------------------------------------------------
(* C30 *)

\* the positions in the log of the calls that configure a field name
ConfiguredAt(name) ==
    {i \in DOMAIN history :
        /\ history[i].op \in {"field", "optional_field"}
        /\ history[i].name = name}
LastConfigured(name) ==
    history[CHOOSE i \in ConfiguredAt(name) : \A j \in ConfiguredAt(name) : j <= i]
\* the validator the last configuration of a name asks for
LastValidator(name) ==
    [optional |-> LastConfigured(name).op = "optional_field",
     schema |-> LastConfigured(name).schema]
StrictCalled == \E i \in DOMAIN history : history[i].op = "strict"

\* C30: configuring a field name more than once, by any mix of field and
\* optional_field, keeps only the last configuration: the earlier schema and
\* its required/optional status are discarded, the object validates the key
\* exactly once, against the last schema, and reports at most one issue set
\* for it; strict(), once set, stays set through later builder calls.
DuplicateFieldKeepsLast ==
    schema.k = "object" =>
        /\ DOMAIN schema.fields = {name \in FieldNames : ConfiguredAt(name) # {}}
        /\ \A name \in DOMAIN schema.fields :
            /\ schema.fields[name] = LastValidator(name)
            /\ Cardinality({i \in DOMAIN schema.order : schema.order[i] = name}) = 1
        /\ schema.strict <=> StrictCalled
        /\ (Validated /\ val.t = "object") =>
            /\ Tail(out.calls) =
                Flatten([i \in DOMAIN schema.order |->
                    validate_field(LastValidator(schema.order[i]),
                                   MapGet(val.v, schema.order[i])).calls])
            /\ \A name \in DOMAIN schema.fields :
                Under(name, OutIssues) =
                    Prefixed(name, IssuesOf(
                        validate_field(LastValidator(name), MapGet(val.v, name))))
\* strict(), then field("a", string().min(2)), then optional_field("a",
\* null()): {"a": "x"} is rejected by null() alone
DuplicateFieldKeepsLastWitness ==
    /\ history = <<[op |-> "strict"],
                   [op |-> "field", name |-> <<"a">>, schema |-> Str2],
                   [op |-> "optional_field", name |-> <<"a">>,
                    schema |-> NullSchema]>>
    /\ schema.strict
    /\ Validated
    /\ val = Object(<<"a">> :> X)
    /\ OutIssues = <<Issue(<< <<"a">> >>, InvalidType(VT("Null"), VT("String")))>>
====
